---------------------------- MODULE Spec2Model ----------------------------
(***************************************************************************)
(* CachePilot API security gateway: the address-level rate limiter with    *)
(* escalation blocking (api/middleware/security.py, "Layer B"), the        *)
(* per-key rate limiter (api/auth.py RateLimiter, "Layer A"), the API key  *)
(* store (api/auth.py APIKeyManager) and the get_api_key dependency.       *)
(*                                                                         *)
(* Time.  time.time() and datetime.now() are both readings of the wall     *)
(* clock; the model has one clock `now`, counted in ticks.  The durations  *)
(* of the source are scaled to ticks keeping their order:                  *)
(*    _cache_ttl 30 s -> 1, rate windows 60 s -> 2,                        *)
(*    failed-attempt horizon 300 s -> 3, block duration 15 min -> 4.       *)
(* Request limits are scaled the same way (5 -> 1, 30/50/100 -> 2,         *)
(* 200 -> 3): the algorithms are parametric in them.                       *)
(*                                                                         *)
(* Strings.  Addresses, paths, raw keys and endpoints are sequences of     *)
(* tokens, so that f"{ip}:{path}" and str.startswith are modelled by       *)
(* concatenation and by the prefix relation on sequences.                  *)
(***************************************************************************)
EXTENDS Integers, Sequences, FiniteSets, TLC

VARIABLES
    now,              \* the wall clock (time.time() / datetime.now())
    requestsB,        \* RateLimitMiddleware.requests : request_key -> list
    blocked_ips,      \* RateLimitMiddleware.blocked_ips : ip -> block_until
    requestsA,        \* RateLimiter.requests : identifier -> list
    keys,             \* APIKeyManager.keys : key digest -> record
    file,             \* the content of the backing file (api_key_file)
    last_load_time,   \* APIKeyManager._last_load_time
    failed_attempts,  \* APIKeyManager._failed_attempts : ip -> list
    ret,              \* history: the last APIKeyManager call and what it returned
                      \*          (or the edit of the file that came after it)
    hist,             \* history: per (layer, subject, endpoint), the checks made
    issued,           \* history: the raw keys generate_key has returned
    revoked,          \* history: raw key -> when revoke_key returned True for it
    returned,         \* history: raw key -> request_count of the last record
                      \*          validate_key returned for it (0 at issuance)
    threads,          \* per thread-pool worker: where it is in get_api_key,
                      \* and its local variables
    cstat,            \* history of the workers' requests
    events,           \* the security events logged by the last sequential call
                      \* of the key store or of the gate
    procs,            \* the argument vectors handed to subprocess.run, in order
    xret,             \* what the last CommandExecutor / service call returned
    xlog,             \* the entries _log_execution wrote during that call
    loop_blocked,     \* the request whose handler holds the event loop's thread
    inflight,         \* request id -> route and stage of a request being served
    applied,          \* history: the last function applied, its input and result
    ncalls            \* history: number of calls made

rlVars == <<requestsB, blocked_ips, requestsA, hist>>
keyVars == <<keys, file, last_load_time, failed_attempts, ret, issued, revoked,
             returned, events>>
conVars == <<threads, cstat>>
exeVars == <<procs, xret, xlog>>
appVars == <<loop_blocked, inflight, applied>>
vars == <<now, rlVars, keyVars, conVars, exeVars, appVars, ncalls>>

-----------------------------------------------------------------------------
(* Bounds of the exploration *)

MaxTime == 4
MaxCalls == 5
MaxReq == 3
MaxExec == 2
MaxLen == 3

-----------------------------------------------------------------------------
(* Program constants (scaled, see the header) *)

rate_limit_requests == 2
rate_limit_window == 2
default_limit == 2
default_window == 2
BlockDuration == 4
cache_ttl == 1
FailureHorizon == 3
AbuseThreshold == 5

LOGIN == "/api/auth/login"
TENANTS == "/api/tenants"
MONITORING == "/api/monitoring"
SYSTEM == "/api/system"

\* the override table, in the dict's insertion order
endpoint_limits ==
    << [prefix |-> <<LOGIN>>,      limit |-> 1, window |-> 2],
       [prefix |-> <<TENANTS>>,    limit |-> 2, window |-> 2],
       [prefix |-> <<MONITORING>>, limit |-> 3, window |-> 2],
       [prefix |-> <<SYSTEM>>,     limit |-> 2, window |-> 2] >>

-----------------------------------------------------------------------------
(* Inputs *)

\* source addresses: the first X-Forwarded-For hop is caller-chosen text
IPs == { <<"a">>, <<"a", ":", "/x">> }

\* request paths
Paths == { <<LOGIN>>, <<"/x", ":", LOGIN>> }

\* raw API keys (secrets.token_urlsafe: no ':' in them) and endpoints
ApiKeys == { <<"k1">>, <<"k2">> }
Endpoints == { <<"*">>, <<"e">> }

-----------------------------------------------------------------------------
(* Helpers *)

StartsWith(s, p) == Len(p) <= Len(s) /\ SubSeq(s, 1, Len(p)) = p

\* d[k] = v on a dict d (a function whose DOMAIN is the set of its keys)
Put(d, k, v) == [x \in DOMAIN d \cup {k} |-> IF x = k THEN v ELSE d[x]]

Del_Forgotten(d, k) == d

\* del d[k]
Del(d, k) == [x \in DOMAIN d \ {k} |-> d[x]]

EmptyDict == [x \in {} |-> 0]

\* how many times x occurs in the sequence s
Count(s, x) == Cardinality({i \in DOMAIN s : s[i] = x})

\* the history of calls: call c, made now, returned ok
Record(h, c, ok) ==
    Put(h, c, Append(IF c \in DOMAIN h THEN h[c] ELSE <<>>,
                     [t |-> now, ok |-> ok]))

-----------------------------------------------------------------------------
(* Layer B: RateLimitMiddleware *)

\* f"{ip}:{path}"
request_key(ip, path) == ip \o <<":">> \o path

\* the first entry of endpoint_limits whose prefix starts the path, or 0
MatchIndex(path) ==
    LET hits == {i \in DOMAIN endpoint_limits :
                    StartsWith(path, endpoint_limits[i].prefix)}
    IN IF hits = {} THEN 0
       ELSE CHOOSE i \in hits : \A j \in hits : i <= j

LimitB(path) ==
    IF MatchIndex(path) = 0 THEN default_limit
    ELSE endpoint_limits[MatchIndex(path)].limit

WindowB(path) ==
    IF MatchIndex(path) = 0 THEN default_window
    ELSE endpoint_limits[MatchIndex(path)].window

IsBlocked_OffByOne(ip) == ip \in DOMAIN blocked_ips /\ now <= blocked_ips[ip]

\* _is_blocked: the value returned
IsBlocked(ip) == ip \in DOMAIN blocked_ips /\ now < blocked_ips[ip]

\* _is_blocked: blocked_ips after the lookup (lazy deletion past expiry)
AfterIsBlocked(ip) ==
    IF ip \in DOMAIN blocked_ips /\ ~(now < blocked_ips[ip])
    THEN Del(blocked_ips, ip)
    ELSE blocked_ips

\* _block_ip
BlockIp(blocked, ip) == Put(blocked, ip, now + BlockDuration)

\* requests = self.requests[request_key]: a defaultdict lookup inserts the key
DefaultGet(d, k) == IF k \in DOMAIN d THEN d ELSE Put(d, k, <<>>)

PruneB_Inclusive(s, window) == SelectSeq(s, LAMBDA t : now - t <= window)

\* [t for t in requests if now - t < window]
PruneB(s, window) == SelectSeq(s, LAMBDA t : now - t < window)

\* the escalation test of a rejected request
Escalates(n, limit) == n >= limit * 2

OverLimit_OffByOne(n, limit) == n > limit

\* the admission test
OverLimit(n, limit) == n >= limit

\* _check_rate_limit(ip, path): the two tables after the call and the value
\* returned
RateLimitBEffect(ip, path) ==
    IF IsBlocked(ip)
    THEN [requests |-> requestsB, blocked |-> blocked_ips, ok |-> FALSE]
    ELSE LET unb == AfterIsBlocked(ip)
             key == request_key(ip, path)
             reqs0 == DefaultGet(requestsB, key)
             pruned == PruneB(reqs0[key], WindowB(path))
         IN IF OverLimit(Len(pruned), LimitB(path))
            THEN [requests |-> reqs0,
                  blocked |-> IF Escalates(Len(pruned), LimitB(path))
                              THEN BlockIp(unb, ip) ELSE unb,
                  ok |-> FALSE]
            ELSE [requests |-> Put(reqs0, key, Append(pruned, now)),
                  blocked |-> unb, ok |-> TRUE]

CheckRateLimitB(ip, path) ==
    /\ ncalls < MaxCalls
    /\ ncalls' = ncalls + 1
    /\ \E r \in {RateLimitBEffect(ip, path)} :
          /\ requestsB' = r.requests
          /\ blocked_ips' = r.blocked
          /\ hist' = Record(hist, <<"B", ip, path>>, r.ok)
    /\ UNCHANGED <<exeVars, appVars, now, requestsA, keyVars, conVars>>

-----------------------------------------------------------------------------
(* Layer A: RateLimiter *)

\* f"{key}:{endpoint}"
identifier(key, endpoint) == key \o <<":">> \o endpoint

PruneA_SignError(s) == SelectSeq(s, LAMBDA t : t > now + rate_limit_window)

\* [t for t in requests if t > window_start], window_start = now - window
PruneA(s) == SelectSeq(s, LAMBDA t : t > now - rate_limit_window)

\* check_rate_limit(key, endpoint): the table after the call and the value
\* returned
RateLimitAEffect(key, endpoint) ==
    LET id == identifier(key, endpoint)
        reqs0 == IF id \in DOMAIN requestsA THEN requestsA
                 ELSE Put(requestsA, id, <<>>)
        pruned == PruneA(reqs0[id])
    IN IF OverLimit(Len(pruned), rate_limit_requests)
       THEN [requests |-> Put(reqs0, id, pruned), ok |-> FALSE]
       ELSE [requests |-> Put(reqs0, id, Append(pruned, now)), ok |-> TRUE]

CheckRateLimitA(key, endpoint) ==
    /\ ncalls < MaxCalls
    /\ ncalls' = ncalls + 1
    /\ \E r \in {RateLimitAEffect(key, endpoint)} :
          /\ requestsA' = r.requests
          /\ hist' = Record(hist, <<"A", key, endpoint>>, r.ok)
    /\ UNCHANGED <<exeVars, appVars, now, requestsB, blocked_ips, keyVars, conVars>>

-----------------------------------------------------------------------------
(* The two layers side by side: the same subject and endpoint are handed to
   check_rate_limit and to _check_rate_limit at the same time *)

CheckBoth(subject, endpoint) ==
    /\ ncalls < MaxCalls
    /\ ncalls' = ncalls + 1
    /\ \E a \in {RateLimitAEffect(subject, endpoint)} :
       \E b \in {RateLimitBEffect(subject, endpoint)} :
          /\ requestsA' = a.requests
          /\ requestsB' = b.requests
          /\ blocked_ips' = b.blocked
          /\ hist' = Record(Record(hist, <<"A", subject, endpoint>>, a.ok),
                            <<"B", subject, endpoint>>, b.ok)
    /\ UNCHANGED <<exeVars, appVars, now, keyVars, conVars>>

\* subjects, and endpoints that no entry of endpoint_limits matches, so that
\* Layer B applies default_limit and default_window
Subjects == { <<"a">>, <<"b">> }
PlainEndpoints == { <<"*">>, <<"/x">> }

------------------------------------------------------------------------------
(* The key store: APIKeyManager *)

\* hashlib.sha256(key.encode()).hexdigest(): one-way, and injective on the
\* keys of the model; a digest is never a raw key
Sha256(key) == <<"sha256">> \o key

\* the backing file: missing, not JSON, or the JSON of a dict
NoFile == [state |-> "missing", data |-> EmptyDict]
Malformed == [state |-> "malformed", data |-> EmptyDict]
Json(ks) == [state |-> "json", data |-> ks]

\* Optional values: None is <<>>, a value v is <<v>>
None == <<>>
Some(v) == <<v>>

\* raw keys: the tokens secrets.token_urlsafe can still return, a key the store
\* never issues, and the empty key
TokenPool == { <<"k1">>, <<"k2">> }
BadKey == <<"bad">>
EmptyKey == <<>>
RawKeys == TokenPool \cup {BadKey, EmptyKey}

\* "unknown": the default of validate_key's ip_address, and the address of a
\* request that has neither a forwarded-for header nor a peer
Unknown == <<"unknown">>
ClientIPs == { "a", "b" }

LoadKeys_Empty(ks) == EmptyDict

\* load_keys: json.load of the file, {} on an error, nothing read when the file
\* is missing (json.dump / json.load give back the dict that was saved)
LoadKeys(ks) ==
    IF file.state = "missing" THEN ks
    ELSE IF file.state = "malformed" THEN EmptyDict
    ELSE file.data

\* _should_reload
ShouldReload == (now - last_load_time) > cache_ttl

\* save_keys: the file's content after json.dump(self.keys)
SaveKeys(ks) == Json(ks)

\* the record generate_key stores
NewRecord(name) ==
    [name |-> name, permissions |-> <<"*">>, created |-> now,
     last_used |-> None, request_count |-> 0]

Touch_LastUsedOnly(rec) == [rec EXCEPT !.last_used = Some(now)]

\* the first two statements of the hit branch of validate_key
Touch(rec) ==
    [rec EXCEPT !.last_used = Some(now), !.request_count = @ + 1]

\* _log_failed_attempt: the table after recording a failure of ip
LogFailedAttempt_NoPrune(fa, ip) ==
    Put(fa, ip, Append(IF ip \in DOMAIN fa THEN fa[ip] ELSE <<>>, now))

LogFailedAttempt(fa, ip) ==
    LET old == IF ip \in DOMAIN fa THEN fa[ip] ELSE <<>>
        recent == SelectSeq(Append(old, now),
                            LAMBDA t : now - t < FailureHorizon)
    IN Put(fa, ip, recent)

GenerateKey(name) ==
    /\ ncalls < MaxCalls
    /\ ncalls' = ncalls + 1
    /\ \E key \in TokenPool \ issued :
          /\ keys' = Put(keys, Sha256(key), NewRecord(name))
          /\ file' = SaveKeys(keys')
          /\ issued' = issued \cup {key}
          /\ returned' = Put(returned, key, 0)
          /\ ret' = [op |-> "generate", key |-> key, ip |-> "", ok |-> TRUE,
                     val |-> None]
    /\ events' = <<>>
    /\ UNCHANGED <<exeVars, appVars, now, rlVars, conVars, last_load_time, failed_attempts, revoked>>

\* log_security_event: the log entry (the timestamp left out)
SecurityEvent(event_type, ip_address, details, severity) ==
    [event_type |-> event_type, ip_address |-> ip_address,
     severity |-> severity, details |-> details]

IsAbuse_Strict(n) == n > AbuseThreshold

\* if len(recent_failures) >= 5
IsAbuse(n) == n >= AbuseThreshold

\* _log_failed_attempt: the events logged, recent being the pruned window
FailureEvents(ip, reason, recent) ==
    << SecurityEvent("auth_failure", ip,
                     [reason |-> reason, recent_failures |-> Len(recent)],
                     "WARNING") >>
    \o IF IsAbuse(Len(recent))
       THEN << SecurityEvent("auth_abuse", ip,
                             [reason |-> "multiple_failed_attempts",
                              failure_count |-> Len(recent)],
                             "ERROR") >>
       ELSE <<>>

SuccessEvents_BeforeIncrement(ip, rec) ==
    << SecurityEvent("auth_success", ip,
                     [key_name |-> rec.name,
                      request_count |-> rec.request_count - 1],
                     "INFO") >>

\* validate_key, hit branch: the event logged for the record returned
SuccessEvents(ip, rec) ==
    << SecurityEvent("auth_success", ip,
                     [key_name |-> rec.name, request_count |-> rec.request_count],
                     "INFO") >>

\* validate_key(key, ip): the store's fields after the call, the value
\* returned and the events logged
ValidateKeyEffect(key, ip) ==
    IF key = EmptyKey
    THEN LET fa == LogFailedAttempt(failed_attempts, ip)
         IN [keys |-> keys, last_load_time |-> last_load_time,
             failed_attempts |-> fa, val |-> None,
             events |-> FailureEvents(ip, "empty_key", fa[ip])]
    ELSE LET loaded == IF ShouldReload THEN LoadKeys(keys) ELSE keys
             llt == IF ShouldReload THEN now ELSE last_load_time
             key_hash == Sha256(key)
         IN IF key_hash \in DOMAIN loaded
            THEN LET rec == Touch(loaded[key_hash])
                 IN [keys |-> Put(loaded, key_hash, rec),
                     last_load_time |-> llt,
                     failed_attempts |-> failed_attempts, val |-> Some(rec),
                     events |-> SuccessEvents(ip, rec)]
            ELSE LET fa == LogFailedAttempt(failed_attempts, ip)
                 IN [keys |-> loaded, last_load_time |-> llt,
                     failed_attempts |-> fa, val |-> None,
                     events |-> FailureEvents(ip, "invalid_key", fa[ip])]

ValidateKey(key, ip) ==
    /\ ncalls < MaxCalls
    /\ ncalls' = ncalls + 1
    /\ \E r \in {ValidateKeyEffect(key, ip)} :
          /\ keys' = r.keys
          /\ last_load_time' = r.last_load_time
          /\ failed_attempts' = r.failed_attempts
          /\ events' = r.events
          /\ ret' = [op |-> "validate", key |-> key, ip |-> ip,
                     ok |-> r.val # None, val |-> r.val]
          /\ returned' = IF r.val # None
                         THEN Put(returned, key, r.val[1].request_count)
                         ELSE returned
    /\ UNCHANGED <<exeVars, appVars, now, rlVars, conVars, file, issued, revoked>>

RevokeKey(key) ==
    /\ ncalls < MaxCalls
    /\ ncalls' = ncalls + 1
    /\ IF Sha256(key) \in DOMAIN keys
       THEN /\ keys' = Del(keys, Sha256(key))
            /\ file' = SaveKeys(keys')
            /\ revoked' = Put(revoked, key, now)
            /\ ret' = [op |-> "revoke", key |-> key, ip |-> "", ok |-> TRUE,
                       val |-> None]
       ELSE /\ UNCHANGED <<keys, file, revoked>>
            /\ ret' = [op |-> "revoke", key |-> key, ip |-> "", ok |-> FALSE,
                       val |-> None]
    /\ events' = <<>>
    /\ UNCHANGED <<exeVars, appVars, now, rlVars, conVars, last_load_time, failed_attempts,
                   issued, returned>>

-----------------------------------------------------------------------------
(* get_api_key in thread-pool workers.  get_api_key is a plain def used as *)
(* a dependency of the async routes, so each request runs it in a worker   *)
(* thread; the workers share api_key_manager and rate_limiter and take no  *)
(* lock.  One action is one read or write of the shared state.             *)

Workers == {1, 2}

Idle == [pc |-> "idle", key |-> <<>>, tmp |-> 0, t |-> 0, snap |-> <<>>]

\* the request of worker w moves on
Goto(w, l) == threads' = [threads EXCEPT ![w].pc = l]

Finish(w) == threads' = [threads EXCEPT ![w] = Idle]

\* self.keys[key_hash] with the digest not in the dictionary: the KeyError
\* leaves validate_key and get_api_key, no statement catches it
KeyError(w) ==
    /\ cstat' = [cstat EXCEPT !.raised = @ + 1]
    /\ Finish(w)

\* get_api_key is entered; a missing key is refused before validate_key
T_Start(w, key) ==
    /\ threads[w].pc = "idle"
    /\ cstat.started < MaxReq
    /\ cstat' = [cstat EXCEPT !.started = @ + 1]
    /\ threads' = [threads EXCEPT ![w] =
                      IF key = EmptyKey THEN Idle
                      ELSE [Idle EXCEPT !.pc = "validate", !.key = key]]
    /\ UNCHANGED <<exeVars, appVars, now, rlVars, keyVars, ncalls>>

\* validate_key: self._reload_if_needed()
T_Reload(w) ==
    /\ threads[w].pc = "validate"
    /\ keys' = IF ShouldReload THEN LoadKeys(keys) ELSE keys
    /\ last_load_time' = IF ShouldReload THEN now ELSE last_load_time
    /\ cstat' = IF ShouldReload THEN [cstat EXCEPT !.reloads = @ + 1] ELSE cstat
    /\ Goto(w, "lookup")
    /\ UNCHANGED <<exeVars, appVars, now, rlVars, file, failed_attempts, ret, issued, revoked,
                   returned, events, ncalls>>

\* validate_key: if key_hash in self.keys, else the failure is logged and
\* get_api_key raises 401
T_Lookup(w) ==
    /\ threads[w].pc = "lookup"
    /\ IF Sha256(threads[w].key) \in DOMAIN keys
       THEN /\ Goto(w, "touch")
            /\ UNCHANGED failed_attempts
       ELSE /\ failed_attempts' = LogFailedAttempt(failed_attempts, Unknown)
            /\ Finish(w)
    /\ UNCHANGED <<exeVars, appVars, now, rlVars, keys, file, last_load_time, ret, issued,
                   revoked, returned, events, cstat, ncalls>>

\* self.keys[key_hash]["last_used"] = time.time()
T_Touch(w) ==
    /\ threads[w].pc = "touch"
    /\ LET h == Sha256(threads[w].key)
       IN IF h \in DOMAIN keys
          THEN /\ keys' = [keys EXCEPT ![h].last_used = Some(now)]
               /\ Goto(w, "rc_read")
               /\ UNCHANGED cstat
          ELSE /\ UNCHANGED keys
               /\ KeyError(w)
    /\ UNCHANGED <<exeVars, appVars, now, rlVars, file, last_load_time, failed_attempts, ret,
                   issued, revoked, returned, events, ncalls>>

\* self.keys[key_hash]["request_count"] += 1: the read
T_RcRead(w) ==
    /\ threads[w].pc = "rc_read"
    /\ LET h == Sha256(threads[w].key)
       IN IF h \in DOMAIN keys
          THEN /\ threads' = [threads EXCEPT ![w].pc = "rc_write",
                                             ![w].tmp = keys[h].request_count]
               /\ UNCHANGED cstat
          ELSE KeyError(w)
    /\ UNCHANGED <<exeVars, appVars, now, rlVars, keyVars, ncalls>>

\* self.keys[key_hash]["request_count"] += 1: the write, into the record
\* that was read; then self.keys[key_hash] is read again for the log entry
\* and for the record that validate_key returns
T_RcWrite(w) ==
    /\ threads[w].pc = "rc_write"
    /\ LET h == Sha256(threads[w].key)
       IN IF h \in DOMAIN keys
          THEN /\ keys' = [keys EXCEPT ![h].request_count = threads[w].tmp + 1]
               /\ cstat' = [cstat EXCEPT !.validated = @ + 1]
               /\ Goto(w, "rl_begin")
          ELSE /\ UNCHANGED keys
               /\ KeyError(w)
    /\ UNCHANGED <<exeVars, appVars, now, rlVars, file, last_load_time, failed_attempts, ret,
                   issued, revoked, returned, events, ncalls>>

\* check_rate_limit(api_key): now = time.time(), and the identifier's list
\* is created when missing
T_RlBegin(w) ==
    /\ threads[w].pc = "rl_begin"
    /\ LET id == identifier(threads[w].key, <<"*">>)
       IN requestsA' = IF id \in DOMAIN requestsA THEN requestsA
                       ELSE Put(requestsA, id, <<>>)
    /\ threads' = [threads EXCEPT ![w].pc = "prune_read", ![w].t = now]
    /\ UNCHANGED <<exeVars, appVars, now, requestsB, blocked_ips, hist, keyVars, cstat, ncalls>>

\* the list comprehension reads self.requests[identifier]
T_PruneRead(w) ==
    /\ threads[w].pc = "prune_read"
    /\ LET id == identifier(threads[w].key, <<"*">>)
           window_start == threads[w].t - rate_limit_window
       IN threads' = [threads EXCEPT
                        ![w].pc = "prune_write",
                        ![w].snap = SelectSeq(requestsA[id],
                                              LAMBDA x : x > window_start)]
    /\ UNCHANGED <<exeVars, appVars, now, rlVars, keyVars, cstat, ncalls>>

\* self.requests[identifier] = [...]
T_PruneWrite(w) ==
    /\ threads[w].pc = "prune_write"
    /\ requestsA' = Put(requestsA, identifier(threads[w].key, <<"*">>),
                        threads[w].snap)
    /\ threads' = [threads EXCEPT ![w].pc = "compare", ![w].snap = <<>>]
    /\ UNCHANGED <<exeVars, appVars, now, requestsB, blocked_ips, hist, keyVars, cstat, ncalls>>

\* if len(self.requests[identifier]) >= settings.rate_limit_requests
T_Compare(w) ==
    /\ threads[w].pc = "compare"
    /\ IF OverLimit(Len(requestsA[identifier(threads[w].key, <<"*">>)]),
                    rate_limit_requests)
       THEN Finish(w)                   \* 429
       ELSE Goto(w, "append")
    /\ UNCHANGED <<exeVars, appVars, now, rlVars, keyVars, cstat, ncalls>>

\* self.requests[identifier].append(now); get_api_key returns the record
T_Append(w) ==
    /\ threads[w].pc = "append"
    /\ LET id == identifier(threads[w].key, <<"*">>)
       IN requestsA' = Put(requestsA, id, Append(requestsA[id], threads[w].t))
    /\ cstat' = [cstat EXCEPT !.admitted = Append(@, threads[w].t)]
    /\ Finish(w)
    /\ UNCHANGED <<exeVars, appVars, now, requestsB, blocked_ips, hist, keyVars, ncalls>>

-----------------------------------------------------------------------------
(* A request through the gateway: RateLimitMiddleware.dispatch, then the   *)
(* get_api_key dependency of the route.                                    *)

\* str.strip() on a sequence of tokens: blanks at both ends are dropped
Whitespace == {" ", "\t", "\n", "\r", "\f"}

RECURSIVE LStrip(_)
LStrip(s) == IF s # <<>> /\ Head(s) \in Whitespace THEN LStrip(Tail(s)) ELSE s

RECURSIVE RStrip(_)
RStrip(s) ==
    IF s # <<>> /\ s[Len(s)] \in Whitespace
    THEN RStrip(SubSeq(s, 1, Len(s) - 1)) ELSE s

Strip_Left(s) == LStrip(s)

Strip(s) == RStrip(LStrip(s))

\* forwarded.split(",")[0]
FirstHop(s) ==
    LET commas == {i \in DOMAIN s : s[i] = ","}
    IN IF commas = {} THEN s
       ELSE SubSeq(s, 1, (CHOOSE i \in commas : \A j \in commas : i <= j) - 1)

\* _get_client_ip
ClientIp(req) ==
    IF req.forwarded # None /\ req.forwarded[1] # <<>>
    THEN Strip(FirstHop(req.forwarded[1]))
    ELSE IF req.peer # None THEN req.peer[1] ELSE Unknown

\* the requests: X-Forwarded-For header (or none), transport peer (or none),
\* path, X-API-Key header (or none)
Headers == { None, Some(<<>>), Some(<<" ", "b", ",", "a">>) }
Peers == { Some(<<"a">>) }
HeaderKeys == { None, Some(EmptyKey), Some(BadKey), Some(<<"k1">>) }
Requests ==
    [forwarded : Headers, peer : Peers, path : {<<TENANTS>>}, api_key : HeaderKeys]

\* the text of a header, empty when the header is missing
HeaderValue(h) == IF h = None THEN <<>> ELSE h[1]

\* get_api_key(api_key): the state of the key store and of Layer A after the
\* call, the status of the response and the events logged
GetApiKeyEffect(api_key) ==
    LET unchanged == [keys |-> keys, last_load_time |-> last_load_time,
                      failed_attempts |-> failed_attempts,
                      requestsA |-> requestsA, val |-> None, events |-> <<>>]
    IN IF api_key = None \/ api_key[1] = EmptyKey
       THEN [unchanged EXCEPT !.val = None] @@ [status |-> 401]
       ELSE LET v == ValidateKeyEffect(api_key[1], Unknown)
                a == RateLimitAEffect(api_key[1], <<"*">>)
                validated == [keys |-> v.keys,
                              last_load_time |-> v.last_load_time,
                              failed_attempts |-> v.failed_attempts,
                              requestsA |-> requestsA, val |-> v.val,
                              events |-> v.events]
            IN IF v.val = None
               THEN validated @@ [status |-> 401]
               ELSE IF ~a.ok
                    THEN [validated EXCEPT !.requestsA = a.requests, !.val = None]
                         @@ [status |-> 429]
                    ELSE [validated EXCEPT !.requestsA = a.requests]
                         @@ [status |-> 200]

\* the Retry-After header of the two too-many-requests responses: the
\* JSONResponse of the middleware carries one, the HTTPException raised by
\* get_api_key is built without headers
RetryAfterB == Some(<<"60">>)
RetryAfterA == None

\* dispatch hands the request on (call_next) when _check_rate_limit admits it
CallNext_Always(b) == TRUE

CallNext(b) == b.ok

\* one request up to the route handler: Layer B first, the dependency when
\* Layer B lets it through
Gate(req) ==
    /\ ncalls < MaxCalls
    /\ ncalls' = ncalls + 1
    /\ \E ip \in {ClientIp(req)} :
       \E b \in {RateLimitBEffect(ip, req.path)} :
       \E g \in {GetApiKeyEffect(req.api_key)} :
          /\ requestsB' = b.requests
          /\ blocked_ips' = b.blocked
          /\ IF ~CallNext(b)
             THEN /\ UNCHANGED <<requestsA, keys, last_load_time,
                                 failed_attempts, returned>>
                  /\ events' = <<>>
                  /\ ret' = [op |-> "request", key |-> HeaderValue(req.api_key),
                             ip |-> ip, path |-> req.path,
                             ok |-> FALSE, val |-> None, status |-> 429,
                             retry_after |-> RetryAfterB,
                             by |-> "middleware"]
             ELSE /\ requestsA' = g.requestsA
                  /\ keys' = g.keys
                  /\ last_load_time' = g.last_load_time
                  /\ failed_attempts' = g.failed_attempts
                  /\ events' = g.events
                  /\ returned' = IF g.val # None /\ req.api_key[1] \in DOMAIN returned
                                 THEN Put(returned, req.api_key[1],
                                          g.val[1].request_count)
                                 ELSE returned
                  /\ ret' = [op |-> "request", key |-> HeaderValue(req.api_key),
                             ip |-> ip, path |-> req.path,
                             ok |-> g.status = 200, val |-> g.val,
                             status |-> g.status,
                             retry_after |-> IF g.status = 429 THEN RetryAfterA
                                             ELSE None,
                             by |-> "get_api_key"]
    /\ UNCHANGED <<appVars, now, hist, conVars, file, issued, revoked>>

\* a request to a route whose handler starts no subprocess
Request(req) == Gate(req) /\ UNCHANGED exeVars

\* the digest of a key provisioned outside this process
ExtDigest == Sha256(<<"kx">>)

\* An edit of the backing file from outside the process (the reload policy
\* exists to pick these up): a record is added or removed.
ExternalEdit ==
    /\ ncalls < MaxCalls
    /\ ncalls' = ncalls + 1
    /\ ret' = [op |-> "edit", key |-> <<>>, ip |-> "", ok |-> TRUE, val |-> None]
    /\ events' = <<>>
    /\ \/ /\ ExtDigest \notin DOMAIN file.data
          /\ file' = Json(Put(file.data, ExtDigest, NewRecord("x")))
       \/ \E h \in DOMAIN file.data : file' = Json(Del(file.data, h))
    /\ UNCHANGED <<exeVars, appVars, now, rlVars, conVars, keys, last_load_time,
                   failed_attempts, issued, revoked, returned>>

\* An edit of the backing file from outside the process that revokes a key:
\* its record is taken out of the file.
ExternalRemove(key) ==
    /\ ncalls < MaxCalls
    /\ file.state = "json"
    /\ Sha256(key) \in DOMAIN file.data
    /\ ncalls' = ncalls + 1
    /\ ret' = [op |-> "edit", key |-> key, ip |-> "", ok |-> TRUE, val |-> None]
    /\ events' = <<>>
    /\ file' = Json(Del(file.data, Sha256(key)))
    /\ UNCHANGED <<exeVars, appVars, now, rlVars, conVars, keys, last_load_time,
                   failed_attempts, issued, revoked, returned>>

\* The backing file is deleted, or overwritten with text that is not JSON,
\* from outside the process.
ExternalReplace ==
    /\ ncalls < MaxCalls
    /\ ncalls' = ncalls + 1
    /\ ret' = [op |-> "edit", key |-> <<>>, ip |-> "", ok |-> TRUE, val |-> None]
    /\ events' = <<>>
    /\ \/ file.state # "missing" /\ file' = NoFile
       \/ file.state # "malformed" /\ file' = Malformed
    /\ UNCHANGED <<exeVars, appVars, now, rlVars, conVars, keys, last_load_time,
                   failed_attempts, issued, revoked, returned>>

\* load_keys() called on the manager
LoadKeysCall ==
    /\ ncalls < MaxCalls
    /\ ncalls' = ncalls + 1
    /\ keys' = LoadKeys(keys)
    /\ last_load_time' = now
    /\ ret' = [op |-> "load", key |-> <<>>, ip |-> "", ok |-> TRUE, val |-> None]
    /\ events' = <<>>
    /\ UNCHANGED <<exeVars, appVars, now, rlVars, conVars, file, failed_attempts, issued,
                   revoked, returned>>

-----------------------------------------------------------------------------
(* The command executor (api/utils/executor.py), the argument sanitizer    *)
(* (api/utils/input_sanitization.py) and the backup service.  A string is  *)
(* a sequence of characters; a Python value is its type and its text.      *)

PyStr(s) == [type |-> "str", v |-> s]
PyInt(digits) == [type |-> "int", v |-> digits]

\* str(value)
Str(value) == value.v

\* bool(value)
Truthy(value) ==
    IF value.type = "str" THEN value.v # <<>> ELSE value.v # <<"0">>

ALLOWED_COMMANDS ==
    { <<c>> : c \in
        {"tenant", "create", "delete", "list", "status",
         "backup", "restore", "list-backups", "verify-backup",
         "backup-enable", "backup-disable", "backup-status", "backup-enable-all",
         "cert", "renew",
         "health", "check", "stats",
         "monitoring", "metrics",
         "config", "get", "set",
         "redis", "cli", "info", "restart", "start", "stop",
         "new", "rm", "set-memory", "rotate", "handover"} }

\* settings.redis_mgr_cli
cli_path == <<"/opt/cachepilot/cli/cachepilot">>

\* (the backquote is written as a word)
dangerous_chars ==
    <<";", "|", "&", "$", "backquote", "\n", "\r", ">", "<", "(", ")", "{", "}">>

\* char in arg
HasChar(arg, char) == \E i \in DOMAIN arg : arg[i] = char

HasDotDot_Missed(arg) == FALSE

\* '..' in arg
HasDotDot(arg) == \E i \in 1..(Len(arg) - 1) : arg[i] = "." /\ arg[i + 1] = "."

\* a call that returns v, or raises ValidationError(msg)
Returns(v) == [raised |-> FALSE, v |-> v, msg |-> <<>>]
Raises(msg) == [raised |-> TRUE, v |-> <<>>, msg |-> msg]

\* sanitize_command_argument
sanitize_command_argument(arg) ==
    LET found == {i \in DOMAIN dangerous_chars : HasChar(arg, dangerous_chars[i])}
    IN IF found # {}
       THEN Raises(<<"Argument contains dangerous character: ",
                     dangerous_chars[CHOOSE i \in found : \A j \in found : i <= j]>>)
       ELSE IF HasDotDot(arg)
            THEN Raises(<<"Argument contains directory traversal pattern">>)
            ELSE Returns(Strip(arg))

ValidateCommand_NoWhitelist(command) ==
    IF ~Truthy(command) \/ command.type # "str"
    THEN Raises(<<"Command must be a non-empty string">>)
    ELSE Returns(<<>>)

\* _validate_command
ValidateCommand(command) ==
    IF ~Truthy(command) \/ command.type # "str"
    THEN Raises(<<"Command must be a non-empty string">>)
    ELSE IF command.v \notin ALLOWED_COMMANDS
         THEN Raises(<<"Command '">> \o command.v \o <<"' is not allowed">>)
         ELSE Returns(<<>>)

\* _sanitize_arguments: the sanitized list, or the first argument's error
RECURSIVE SanitizeArguments(_)
SanitizeArguments(args) ==
    IF args = <<>> THEN Returns(<<>>)
    ELSE LET first == sanitize_command_argument(Str(Head(args)))
             rest == SanitizeArguments(Tail(args))
         IN IF first.raised THEN first
            ELSE IF rest.raised THEN rest
                 ELSE Returns(<<first.v>> \o rest.v)

\* what the child process wrote to its standard output and standard error
Outs == { <<>>, <<"stdout">> }
Errs == { <<>>, <<"stderr">>, <<"Command timeout">>,
          <<"Command timeout after ", "120", "s">> }

\* what subprocess.run does with the argument vector: the child exits with
\* code 0 or with another code, having written its output; or the timeout
\* expires (TimeoutExpired); or subprocess.run raises something else
Exited(kind, out, err) == [kind |-> kind, out |-> out, err |-> err]
TimedOut == [kind |-> "timeout", out |-> <<>>, err |-> <<>>]
Failed == [kind |-> "error", out |-> <<>>, err |-> <<>>]
Outcomes ==
    { Exited(k, o, e) : k \in {"zero", "nonzero"}, o \in Outs, e \in Errs }
    \cup { TimedOut, Failed }

\* the outcomes with one fixed output per exit code
PlainOutcomes ==
    { Exited(k, <<"stdout">>, <<"stderr">>) : k \in {"zero", "nonzero"} }
    \cup { TimedOut, Failed }

\* the (success, stdout, stderr) returned after subprocess.run
RunResult_AlwaysOk(outcome, timeout_msg) ==
    [ok |-> TRUE, out |-> outcome.out, err |-> outcome.err]

RunResult(outcome, timeout_msg) ==
    CASE outcome.kind = "zero"    -> [ok |-> TRUE,  out |-> outcome.out, err |-> outcome.err]
      [] outcome.kind = "nonzero" -> [ok |-> FALSE, out |-> outcome.out, err |-> outcome.err]
      [] outcome.kind = "timeout" -> [ok |-> FALSE, out |-> <<>>, err |-> timeout_msg]
      [] outcome.kind = "error"   -> [ok |-> FALSE, out |-> <<>>,
                                      err |-> <<"Command execution error">>]

\* _log_execution(command, args, success, stderr): one log record, at level
\* info on success and at level error, with the stderr, otherwise
StrArgs(args) == [i \in DOMAIN args |-> Str(args[i])]

LogExecution(command, args, success, stderr) ==
    [command |-> command.v, args |-> StrArgs(args), success |-> success,
     cli_path |-> cli_path,
     level |-> IF success THEN "info" ELSE "error",
     stderr |-> IF success THEN None ELSE Some(stderr)]

\* execute and execute_with_timeout: validation, then subprocess.run of
\* [cli_path, command] + sanitized_args, then _log_execution
RunEffect(op, command, args, outcome, timeout_msg) ==
    LET checked == ValidateCommand(command)
        sanitized == IF checked.raised THEN checked
                     ELSE SanitizeArguments(args)
    IN IF sanitized.raised
       THEN [procs |-> procs,
             xlog |-> <<>>,
             xret |-> [op |-> op, command |-> command, args |-> args,
                       ok |-> FALSE, out |-> <<>>, err |-> sanitized.msg,
                       run |-> None]]
       ELSE LET r == RunResult(outcome, timeout_msg)
            IN [procs |-> Append(procs,
                                 [by |-> "CommandExecutor",
                                  argv |-> <<cli_path, command.v>> \o sanitized.v]),
                xlog |-> <<LogExecution(command, args, r.ok, r.err)>>,
                xret |-> [op |-> op, command |-> command, args |-> args,
                          ok |-> r.ok, out |-> r.out, err |-> r.err,
                          run |-> Some(outcome)]]

Run(op, command, args, outcome, timeout_msg) ==
    /\ ncalls < MaxExec
    /\ ncalls' = ncalls + 1
    /\ \E x \in {RunEffect(op, command, args, outcome, timeout_msg)} :
          /\ procs' = x.procs
          /\ xlog' = x.xlog
          /\ xret' = x.xret
    /\ UNCHANGED <<now, rlVars, keyVars, conVars, appVars>>

Execute(command, args, outcome) ==
    Run("execute", command, args, outcome, <<"Command timeout">>)

ExecuteWithTimeout(command, timeout, args, outcome) ==
    Run("execute_with_timeout", command, args, outcome,
        <<"Command timeout after ", timeout, "s">>)

\* BackupService.create_backup(tenant), tenant being the field of the request
\* body: the script is an f-string around the tenant, run by bash -c
bash_cmd(tenant) ==
    <<"source /opt/cachepilot/cli/lib/common.sh 2>/dev/null\n",
      "source /opt/cachepilot/cli/lib/backup.sh 2>/dev/null\n",
      "backup_init\n", "backup_create ", "\"">>
    \o tenant \o <<"\"", " ", "\"manual\"">>

CreateBackup(tenant, outcome) ==
    /\ ncalls < MaxExec
    /\ ncalls' = ncalls + 1
    /\ procs' = Append(procs, [by |-> "BackupService.create_backup",
                               argv |-> <<<<"bash">>, <<"-c">>, bash_cmd(tenant)>>])
    /\ xret' = [op |-> "create_backup", command |-> PyStr(<<>>),
                args |-> <<PyStr(tenant)>>, ok |-> outcome.kind = "zero",
                out |-> <<>>, err |-> <<>>, run |-> Some(outcome)]
    /\ xlog' = <<>>
    /\ UNCHANGED <<now, rlVars, keyVars, conVars, appVars>>

\* the values callers pass
\* POST /api/v1/tenants/{tenant_name}/start: the middleware, the dependency
\* get_api_key, and then the handler, tenant_service.start_tenant, which calls
\* executor.execute("start", name)
StartPath(tenant_name) == <<"/api/v1/tenants/">> \o tenant_name \o <<"/start">>

StartTenant(req, tenant_name, outcome) ==
    /\ req.path = StartPath(tenant_name)
    /\ Gate(req)
    /\ IF ret'.status = 200
       THEN \E x \in {RunEffect("execute", PyStr(<<"start">>),
                                <<PyStr(tenant_name)>>, outcome,
                                <<"Command timeout">>)} :
               /\ procs' = x.procs
               /\ xlog' = x.xlog
               /\ xret' = x.xret
       ELSE UNCHANGED exeVars

\* the requests made to the start route
StartRequests ==
    [forwarded : {None}, peer : Peers, path : {StartPath(<<"t">>)},
     api_key : HeaderKeys]

Commands == { PyStr(<<"status">>), PyStr(<<"evil">>), PyStr(<<>>), PyInt(<<"7">>) }
ArgValues == { PyStr(<<"t">>), PyStr(<<" ", "t", " ">>), PyStr(<<"t", ";">>),
               PyStr(<<".", ".", "/", "t">>), PyInt(<<"7">>) }
ArgTuples == {<<>>} \cup {<<x>> : x \in ArgValues}
             \cup {<<x, y>> : x \in ArgValues, y \in ArgValues}
Timeouts == {"120"}
Tenants == { <<"t">>, <<"t", "\"", ";", "r", "m", ";", "\"">> }

-----------------------------------------------------------------------------
(* The event loop: the route handlers are coroutines (async def) run by one
   thread; a handler that calls the service directly keeps that thread until
   subprocess.run has returned, one that awaits loop.run_in_executor leaves
   it to the other coroutines while a pool thread makes the call *)

Routes == {"create_tenant", "start_tenant", "health_check"}

\* the routes whose handler reaches executor.execute / execute_with_timeout
ReachesExecutor(route) == route \in {"create_tenant", "start_tenant"}

\* the routes whose handler hands the service call to the thread pool
OffLoop(route) == route = "create_tenant"

RequestIds == 1..MaxReq

\* the loop takes up a request and runs its handler up to the first await
\* or, without one, to its end
Accept(id, route) ==
    /\ loop_blocked = None
    /\ id \notin DOMAIN inflight
    /\ IF ~ReachesExecutor(route)
       THEN /\ inflight' = Put(inflight, id, [route |-> route, stage |-> "done"])
            /\ UNCHANGED loop_blocked
       ELSE /\ inflight' = Put(inflight, id,
                               [route |-> route, stage |-> "subprocess"])
            /\ loop_blocked' = IF OffLoop(route) THEN None ELSE Some(id)
    /\ UNCHANGED <<now, rlVars, keyVars, conVars, exeVars, applied, ncalls>>

\* subprocess.run returns (the child exited, or the timeout killed it): a
\* handler that held the loop's thread goes on to its response; a call made in
\* the pool completes its future
SubprocessEnds(id) ==
    /\ id \in DOMAIN inflight
    /\ inflight[id].stage = "subprocess"
    /\ IF loop_blocked = Some(id)
       THEN /\ inflight' = Put(inflight, id, [inflight[id] EXCEPT !.stage = "done"])
            /\ loop_blocked' = None
       ELSE /\ inflight' = Put(inflight, id,
                               [inflight[id] EXCEPT !.stage = "returned"])
            /\ UNCHANGED loop_blocked
    /\ UNCHANGED <<now, rlVars, keyVars, conVars, exeVars, applied, ncalls>>

\* the loop resumes the coroutine that awaited the pool's future
Resume(id) ==
    /\ loop_blocked = None
    /\ id \in DOMAIN inflight
    /\ inflight[id].stage = "returned"
    /\ inflight' = Put(inflight, id, [inflight[id] EXCEPT !.stage = "done"])
    /\ UNCHANGED <<loop_blocked, now, rlVars, keyVars, conVars, exeVars, applied,
                   ncalls>>

-----------------------------------------------------------------------------
(* Path containment: a path is the sequence of its characters *)

\* the components of a path: the non-empty runs between separators
RECURSIVE Components(_)
Components(s) ==
    IF s = <<>> THEN <<>>
    ELSE IF Head(s) = "/" THEN Components(Tail(s))
    ELSE LET seps == {i \in DOMAIN s : s[i] = "/"}
             end == IF seps = {} THEN Len(s) + 1
                    ELSE CHOOSE i \in seps : \A j \in seps : i <= j
         IN <<SubSeq(s, 1, end - 1)>> \o Components(SubSeq(s, end, Len(s)))

\* the components left once '.' is dropped and '..' has taken back the
\* component before it (none at the root); no symbolic link is on the way
RECURSIVE Normalize(_, _)
Normalize(cs, stack) ==
    IF cs = <<>> THEN stack
    ELSE IF Head(cs) = <<".">> THEN Normalize(Tail(cs), stack)
    ELSE IF Head(cs) = <<".", ".">>
         THEN Normalize(Tail(cs),
                        IF stack = <<>> THEN stack
                        ELSE SubSeq(stack, 1, Len(stack) - 1))
         ELSE Normalize(Tail(cs), Append(stack, Head(cs)))

\* str() of a resolved path
RECURSIVE PathStr(_)
PathStr(cs) ==
    IF cs = <<>> THEN <<>> ELSE <<"/">> \o Head(cs) \o PathStr(Tail(cs))

\* Path(s).resolve() of an absolute path
Resolve(s) ==
    LET cs == Normalize(Components(s), <<>>)
    IN IF cs = <<>> THEN <<"/">> ELSE PathStr(cs)

\* base_path / path: an absolute path takes the place of the base
Join(base_path, path) ==
    IF path # <<>> /\ Head(path) = "/" THEN path
    ELSE base_path \o <<"/">> \o path

\* the containment test of sanitize_file_path
Contained(target_path, base_path) == StartsWith(target_path, base_path)

sanitize_file_path(path, base_dir) ==
    IF path = <<>> THEN Raises(<<"Path must be a non-empty string">>)
    ELSE IF base_dir = <<>>
    THEN Raises(<<"Base directory must be a non-empty string">>)
    ELSE LET base_path == Resolve(base_dir)
             target_path == Resolve(Join(base_path, path))
         IN IF ~Contained(target_path, base_path)
            THEN Raises(<<"Path traversal detected">>)
            ELSE Returns(target_path)

\* the strings of at most n characters over an alphabet
Strings(alphabet, n) == UNION { [1..k -> alphabet] : k \in 0..n }

PathAlphabet == {"/", ".", "b", "x"}
CandidatePaths ==
    Strings(PathAlphabet, MaxLen) \cup { <<".", ".", "/", "b", "x", "/", "x">> }
BaseDirs == { <<"/", "b">>, <<"/", "b", "/">> }

ArgAlphabet == {"t", " ", "\t", ".", ";"}
Arguments == Strings(ArgAlphabet, MaxLen)

ApplySanitizeFilePath(path, base_dir) ==
    /\ applied' = [fn |-> "sanitize_file_path", path |-> path,
                   base_dir |-> base_dir,
                   res |-> sanitize_file_path(path, base_dir)]
    /\ UNCHANGED <<now, rlVars, keyVars, conVars, exeVars, loop_blocked,
                   inflight, ncalls>>

ApplySanitizeCommandArgument(arg) ==
    /\ applied' = [fn |-> "sanitize_command_argument", arg |-> arg,
                   res |-> sanitize_command_argument(arg)]
    /\ UNCHANGED <<now, rlVars, keyVars, conVars, exeVars, loop_blocked,
                   inflight, ncalls>>

------------------------------------------------------------------------------
(* What the caller is told when an exception is raised while a request is
   handled *)

\* sanitize_error_message.safe_errors, and the default of its .get
safe_errors ==
    [ValidationError |-> <<"Invalid input provided">>,
     ValueError |-> <<"Invalid value">>,
     KeyError |-> <<"Required field missing">>,
     FileNotFoundError |-> <<"Resource not found">>,
     PermissionError |-> <<"Access denied">>,
     TimeoutError |-> <<"Request timeout">>]

DefaultMessage == <<"An error occurred while processing your request">>

sanitize_error_message(error, debug) ==
    IF debug THEN error.text
    ELSE IF error.type \in DOMAIN safe_errors THEN safe_errors[error.type]
         ELSE DefaultMessage

\* global_exception_handler: the response to an exception that left the route
global_exception_handler(exc, debug) ==
    [status |-> 500, message |-> sanitize_error_message(exc, debug)]

\* BackupService.create_backup catches every Exception of its subprocess call
\* and returns its text in the field "error"; the route create_backup puts
\* that field into the detail of an HTTPException(400)
ServiceResult(exc) ==
    [success |-> FALSE, message |-> <<"Failed to create backup">>,
     error |-> exc.text]

create_backup_response(exc, debug) ==
    LET result == ServiceResult(exc)
    IN [status |-> 400, message |-> result.error]

\* where the exception is raised: in the route or its dependencies (nothing
\* catches it before the application's handler), or inside the service call
Sites == {"route", "service"}

ExceptionTypes ==
    {"ValidationError", "ValueError", "KeyError", "FileNotFoundError",
     "PermissionError", "TimeoutError", "OSError"}
ExceptionTexts ==
    { <<"[Errno 13] Permission denied: '/etc/cachepilot/api-keys.json'">>,
      <<"Invalid value">> }
Exceptions == [type : ExceptionTypes, text : ExceptionTexts]

Respond(site, exc, debug) ==
    /\ applied' = [fn |-> "respond", site |-> site, exc |-> exc, debug |-> debug,
                   res |-> IF site = "service"
                           THEN create_backup_response(exc, debug)
                           ELSE global_exception_handler(exc, debug)]
    /\ UNCHANGED <<now, rlVars, keyVars, conVars, exeVars, loop_blocked,
                   inflight, ncalls>>

------------------------------------------------------------------------------
(* The clock *)

Tick ==
    /\ now < MaxTime
    /\ now' = now + 1
    /\ UNCHANGED <<rlVars, keyVars, conVars, exeVars, appVars, ncalls>>

-----------------------------------------------------------------------------
(* Specifications *)

\* nothing applied yet
NotApplied == [fn |-> "none"]

Init ==
    /\ now = 0
    /\ requestsB = EmptyDict
    /\ blocked_ips = EmptyDict
    /\ requestsA = EmptyDict
    /\ hist = EmptyDict
    /\ keys = EmptyDict
    /\ file = NoFile
    /\ last_load_time = 0
    /\ failed_attempts = EmptyDict
    /\ ret = [op |-> "none", key |-> <<>>, ip |-> "", ok |-> FALSE, val |-> None]
    /\ issued = {}
    /\ revoked = EmptyDict
    /\ returned = EmptyDict
    /\ threads = [w \in Workers |-> Idle]
    /\ cstat = [started |-> 0, validated |-> 0, reloads |-> 0, admitted |-> <<>>,
                raised |-> 0]
    /\ events = <<>>
    /\ procs = <<>>
    /\ xret = [op |-> "none", command |-> PyStr(<<>>), args |-> <<>>,
               ok |-> FALSE, out |-> <<>>, err |-> <<>>, run |-> None]
    /\ xlog = <<>>
    /\ loop_blocked = None
    /\ inflight = EmptyDict
    /\ applied = NotApplied
    /\ ncalls = 0

\* Layer B alone: the middleware under sequential requests
NextB ==
    \/ \E ip \in IPs, path \in Paths : CheckRateLimitB(ip, path)
    \/ Tick

SpecB == Init /\ [][NextB]_vars

\* Layer A alone
NextA ==
    \/ \E key \in ApiKeys, endpoint \in Endpoints : CheckRateLimitA(key, endpoint)
    \/ Tick

SpecA == Init /\ [][NextA]_vars

\* both rate-limiting layers, under sequential calls and a non-decreasing clock
NextRL ==
    \/ \E path \in Paths : CheckRateLimitB(<<"a">>, path)
    \/ \E endpoint \in Endpoints : CheckRateLimitA(<<"k1">>, endpoint)
    \/ Tick

SpecRL == Init /\ [][NextRL]_vars

\* the key store under sequential calls; the backing file is written by the
\* store alone
NextKeys ==
    \/ GenerateKey("n")
    \/ \E key \in RawKeys, ip \in ClientIPs : ValidateKey(key, ip)
    \/ \E key \in RawKeys \ {EmptyKey} : RevokeKey(key)
    \/ Tick

SpecKeys == Init /\ [][NextKeys]_vars

\* issuing and validating keys, with the backing file also edited from outside
NextKeysExt ==
    \/ GenerateKey("n")
    \/ \E key \in RawKeys, ip \in ClientIPs : ValidateKey(key, ip)
    \/ ExternalEdit
    \/ Tick

SpecKeysExt == Init /\ [][NextKeysExt]_vars

\* issuing and revoking keys, with the backing file also edited from outside
NextStoreExt ==
    \/ GenerateKey("n")
    \/ \E key \in RawKeys \ {EmptyKey} : RevokeKey(key)
    \/ ExternalEdit
    \/ Tick

SpecStoreExt == Init /\ [][NextStoreExt]_vars

\* the key store with the backing file edited, replaced or deleted from
\* outside, and load_keys called
NextLoad ==
    \/ GenerateKey("n")
    \/ \E key \in {<<"k1">>, BadKey} : ValidateKey(key, "a")
    \/ LoadKeysCall
    \/ ExternalEdit
    \/ ExternalReplace
    \/ Tick

SpecLoad == Init /\ [][NextLoad]_vars

\* the store after generate_key has issued the key k1
InitConc ==
    /\ now = 0
    /\ requestsB = EmptyDict
    /\ blocked_ips = EmptyDict
    /\ requestsA = EmptyDict
    /\ hist = EmptyDict
    /\ keys = Put(EmptyDict, Sha256(<<"k1">>), NewRecord("n"))
    /\ file = SaveKeys(keys)
    /\ last_load_time = 0
    /\ failed_attempts = EmptyDict
    /\ ret = [op |-> "generate", key |-> <<"k1">>, ip |-> "", ok |-> TRUE,
              val |-> None]
    /\ issued = {<<"k1">>}
    /\ revoked = EmptyDict
    /\ returned = Put(EmptyDict, <<"k1">>, 0)
    /\ threads = [w \in Workers |-> Idle]
    /\ cstat = [started |-> 0, validated |-> 0, reloads |-> 0, admitted |-> <<>>,
                raised |-> 0]
    /\ events = <<>>
    /\ procs = <<>>
    /\ xret = [op |-> "none", command |-> PyStr(<<>>), args |-> <<>>,
               ok |-> FALSE, out |-> <<>>, err |-> <<>>, run |-> None]
    /\ xlog = <<>>
    /\ loop_blocked = None
    /\ inflight = EmptyDict
    /\ applied = NotApplied
    /\ ncalls = 1

\* calls of the executor and of the backup service
NextExec ==
    \/ \E command \in Commands, args \in ArgTuples, outcome \in PlainOutcomes :
          Execute(command, args, outcome)
    \/ \E command \in Commands, timeout \in Timeouts, args \in ArgTuples,
          outcome \in PlainOutcomes :
          ExecuteWithTimeout(command, timeout, args, outcome)
    \/ \E tenant \in Tenants, outcome \in PlainOutcomes :
          CreateBackup(tenant, outcome)

SpecExec == Init /\ [][NextExec]_vars

\* requests through the gateway, one after the other, k1 being issued
NextGate ==
    \/ \E req \in Requests : Request(req)
    \/ Tick

SpecGate == InitConc /\ [][NextGate]_vars

\* calls of the executor, whatever the child process writes
RunCommands == { PyStr(<<"status">>), PyStr(<<"evil">>) }
RunArgs == { <<>>, <<PyStr(<<"t">>)>>, <<PyStr(<<"t", ";">>)>> }

NextRun ==
    \/ \E command \in RunCommands, args \in RunArgs, outcome \in Outcomes :
          Execute(command, args, outcome)
    \/ \E command \in RunCommands, timeout \in Timeouts, args \in RunArgs,
          outcome \in Outcomes :
          ExecuteWithTimeout(command, timeout, args, outcome)

SpecRun == Init /\ [][NextRun]_vars

\* the calls of executor.execute that the service layer makes: the method,
\* the literal command name and the arguments (t a validated tenant name)
ServiceArg(text) == PyStr(<<text>>)

ServiceCalls ==
    { [method |-> "get_tenant", command |-> "status", args |-> <<ServiceArg("t")>>],
      [method |-> "update_tenant", command |-> "set-memory",
       args |-> <<ServiceArg("t"), ServiceArg("256"), ServiceArg("512")>>],
      [method |-> "update_tenant", command |-> "set-memory",
       args |-> <<ServiceArg("t"), ServiceArg("256")>>],
      [method |-> "delete_tenant", command |-> "rm",
       args |-> <<ServiceArg("t"), ServiceArg("--force")>>],
      [method |-> "delete_tenant", command |-> "rm", args |-> <<ServiceArg("t")>>],
      [method |-> "start_tenant", command |-> "start", args |-> <<ServiceArg("t")>>],
      [method |-> "stop_tenant", command |-> "stop", args |-> <<ServiceArg("t")>>],
      [method |-> "restart_tenant", command |-> "restart", args |-> <<ServiceArg("t")>>],
      [method |-> "rotate_password", command |-> "rotate", args |-> <<ServiceArg("t")>>],
      [method |-> "get_handover_info", command |-> "status", args |-> <<ServiceArg("t")>>],
      [method |-> "regenerate_handover", command |-> "handover",
       args |-> <<ServiceArg("t")>>],
      [method |-> "change_security_mode", command |-> "set-access",
       args |-> <<ServiceArg("t"), ServiceArg("tls-only")>>],
      [method |-> "enable_redisinsight", command |-> "insight-enable",
       args |-> <<ServiceArg("t")>>],
      [method |-> "disable_redisinsight", command |-> "insight-disable",
       args |-> <<ServiceArg("t")>>],
      [method |-> "get_redisinsight_status", command |-> "insight-status",
       args |-> <<ServiceArg("t")>>],
      [method |-> "restore_backup", command |-> "restart", args |-> <<ServiceArg("t")>>],
      [method |-> "verify_backup", command |-> "verify-backup",
       args |-> <<ServiceArg("b.tar.gz")>>],
      [method |-> "enable_auto_backup", command |-> "backup-enable",
       args |-> <<ServiceArg("t")>>],
      [method |-> "disable_auto_backup", command |-> "backup-disable",
       args |-> <<ServiceArg("t")>>],
      [method |-> "get_health_status", command |-> "health",
       args |-> <<ServiceArg("--json")>>] }

\* TenantService.create_tenant: executor.execute_with_timeout("new", 120, *args)
CreateTenantArgs ==
    <<ServiceArg("t"), ServiceArg("256"), ServiceArg("512"), ServiceArg("tls-only"),
      ServiceArg(""), ServiceArg("rdb")>>

\* the service operations, each up to the return of its executor call
NextService ==
    \/ \E c \in ServiceCalls, outcome \in PlainOutcomes :
          Execute(PyStr(<<c.command>>), c.args, outcome)
    \/ \E timeout \in Timeouts, outcome \in PlainOutcomes :
          ExecuteWithTimeout(PyStr(<<"new">>), timeout, CreateTenantArgs, outcome)

SpecService == Init /\ [][NextService]_vars

\* the routes the application serves: the routers have the prefixes /tenants,
\* /monitoring and /system and are mounted under /api/v1; family is the entry
\* of endpoint_limits written for the router
ServedRoutes ==
    { [path |-> <<"/api/v1/tenants">>, family |-> <<TENANTS>>],
      [path |-> <<"/api/v1/monitoring/health">>, family |-> <<MONITORING>>],
      [path |-> <<"/api/v1/system/backup">>, family |-> <<SYSTEM>>] }

\* a path under an override prefix that no router serves
UnservedRoutes == { [path |-> <<MONITORING, "/health">>, family |-> <<MONITORING>>] }

\* Layer B on the paths of the application, from one address
NextRoutes ==
    \/ \E r \in ServedRoutes \cup UnservedRoutes : CheckRateLimitB(<<"a">>, r.path)
    \/ Tick

SpecRoutes == Init /\ [][NextRoutes]_vars

\* paths that share one override prefix
PrefixPaths == { <<TENANTS, "/a">>, <<TENANTS, "/b">> }

\* Layer B on these paths, from one address
NextPrefix ==
    \/ \E path \in PrefixPaths : CheckRateLimitB(<<"a">>, path)
    \/ Tick

SpecPrefix == Init /\ [][NextPrefix]_vars

\* both layers on the same calls, under a non-decreasing clock
NextBoth ==
    \/ \E subject \in Subjects, endpoint \in PlainEndpoints :
          CheckBoth(subject, endpoint)
    \/ Tick

SpecBoth == Init /\ [][NextBoth]_vars

\* the sanitizers and the error responses, applied to every input
NextPure ==
    \/ \E path \in CandidatePaths, base_dir \in BaseDirs :
          ApplySanitizeFilePath(path, base_dir)
    \/ \E arg \in Arguments : ApplySanitizeCommandArgument(arg)
    \/ \E site \in Sites, exc \in Exceptions, debug \in BOOLEAN :
          Respond(site, exc, debug)

SpecPure == Init /\ [][NextPure]_vars

\* requests taken up by the event loop while others are being served
NextLoop ==
    \/ \E id \in RequestIds, route \in Routes : Accept(id, route)
    \/ \E id \in RequestIds : SubprocessEnds(id)
    \/ \E id \in RequestIds : Resume(id)

SpecLoop == Init /\ [][NextLoop]_vars

\* requests to the start route, one after the other, k1 being issued
NextServe ==
    \/ \E req \in StartRequests, outcome \in PlainOutcomes :
          StartTenant(req, <<"t">>, outcome)
    \/ Tick

SpecServe == InitConc /\ [][NextServe]_vars

\* requests handled concurrently by the thread-pool workers
NextConc ==
    \/ \E w \in Workers, key \in {<<"k1">>, BadKey, EmptyKey} : T_Start(w, key)
    \/ \E w \in Workers : T_Reload(w)
    \/ \E w \in Workers : T_Lookup(w)
    \/ \E w \in Workers : T_Touch(w)
    \/ \E w \in Workers : T_RcRead(w)
    \/ \E w \in Workers : T_RcWrite(w)
    \/ \E w \in Workers : T_RlBegin(w)
    \/ \E w \in Workers : T_PruneRead(w)
    \/ \E w \in Workers : T_PruneWrite(w)
    \/ \E w \in Workers : T_Compare(w)
    \/ \E w \in Workers : T_Append(w)
    \/ Tick

SpecConc == InitConc /\ [][NextConc]_vars

\* the workers serving requests with the key k1, whose record is at some
\* point taken out of the backing file from outside
NextConcExt ==
    \/ \E w \in Workers : T_Start(w, <<"k1">>)
    \/ \E w \in Workers : T_Reload(w)
    \/ \E w \in Workers : T_Lookup(w)
    \/ \E w \in Workers : T_Touch(w)
    \/ \E w \in Workers : T_RcRead(w)
    \/ \E w \in Workers : T_RcWrite(w)
    \/ \E w \in Workers : T_RlBegin(w)
    \/ \E w \in Workers : T_PruneRead(w)
    \/ \E w \in Workers : T_PruneWrite(w)
    \/ \E w \in Workers : T_Compare(w)
    \/ \E w \in Workers : T_Append(w)
    \/ ExternalRemove(<<"k1">>)
    \/ Tick

SpecConcExt == InitConc /\ [][NextConcExt]_vars

-----------------------------------------------------------------------------
(* Reading the history *)

CallsB == {c \in DOMAIN hist : c[1] = "B"}
CallsA == {c \in DOMAIN hist : c[1] = "A"}

HistOf(h, c) == IF c \in DOMAIN h THEN h[c] ELSE <<>>

\* the step is a call c
Called(c) == Len(HistOf(hist', c)) = Len(HistOf(hist, c)) + 1

\* what the call of this step returned
Returned(c) == HistOf(hist', c)[Len(HistOf(hist', c))].ok

LimitOf(c) == IF c[1] = "A" THEN rate_limit_requests ELSE LimitB(c[3])
WindowOf(c) == IF c[1] = "A" THEN rate_limit_window ELSE WindowB(c[3])

\* the calls of c made in (lo, hi]
CallsIn(c, lo, hi) ==
    {i \in DOMAIN HistOf(hist, c) : lo < hist[c][i].t /\ hist[c][i].t <= hi}

AdmittedIn(c, lo, hi) == {i \in CallsIn(c, lo, hi) : hist[c][i].ok}

-----------------------------------------------------------------------------
(* C1: a Layer B call made when the same address has already called the    *)
(* same path 2*L times inside the current window leaves the address in     *)
(* blocked_ips; when it is the call that reaches 2*L, the expiry is the     *)
(* block duration from now.                                                *)
C1_EscalationBlocks ==
    [][\A ip \in IPs, path \in Paths :
        LET c == <<"B", ip, path>>
            prior == Cardinality(CallsIn(c, now - WindowB(path), now))
        IN (Called(c) /\ prior >= 2 * LimitB(path)) =>
              /\ ~Returned(c)
              /\ ip \in DOMAIN blocked_ips'
              /\ now < blocked_ips'[ip]
              /\ (prior = 2 * LimitB(path) /\ ip \notin DOMAIN blocked_ips)
                    => blocked_ips'[ip] = now + BlockDuration]_vars

-----------------------------------------------------------------------------
(* C2: in both layers, for every (subject, endpoint) and every instant t,  *)
(* at most L calls admitted for it have their timestamp in (t - W, t].     *)
C2_SlidingWindowSafety ==
    \A c \in DOMAIN hist : \A t \in 0..now :
        Cardinality(AdmittedIn(c, t - WindowOf(c), t)) <= LimitOf(c)

\* both layers have filled a window and rejected the next call
C2_Witness ==
    /\ \E c \in CallsA : \E i \in DOMAIN hist[c] :
          /\ ~hist[c][i].ok
          /\ Cardinality(AdmittedIn(c, hist[c][i].t - WindowOf(c), hist[c][i].t))
                = LimitOf(c)
    /\ \E c \in CallsB : \E i \in DOMAIN hist[c] :
          /\ ~hist[c][i].ok
          /\ Cardinality(AdmittedIn(c, hist[c][i].t - WindowOf(c), hist[c][i].t))
                = LimitOf(c)

-----------------------------------------------------------------------------
(* C3: Layer A.  From an empty window (the first call, or a call made W or *)
(* more after the previous one) the first L calls made within W are        *)
(* admitted and the (L+1)-th is rejected; a call made more than W after    *)
(* the previous call of its subject is admitted, and the stored window     *)
(* then holds that call's timestamp alone.                                 *)
C3_ThresholdAndRecovery ==
    \A c \in CallsA :
        LET h == hist[c]
            L == rate_limit_requests
            W == rate_limit_window
            Fresh(s) == s = 1 \/ h[s].t - h[s - 1].t >= W
        IN /\ \A s \in DOMAIN h : Fresh(s) =>
                 \A n \in s..Len(h) :
                    /\ (n < s + L /\ h[n].t - h[s].t < W) => h[n].ok
                    /\ (n = s + L /\ h[n].t - h[s].t < W) => ~h[n].ok
           /\ \A n \in 2..Len(h) : h[n].t - h[n - 1].t > W =>
                 /\ h[n].ok
                 /\ n = Len(h) =>
                       requestsA[identifier(c[2], c[3])] = <<h[n].t>>

\* L admitted, the next rejected, then a wait longer than W and an admission
C3_Witness ==
    \E c \in CallsA :
        LET h == hist[c]
            L == rate_limit_requests
        IN /\ Len(h) = L + 2
           /\ \A n \in 1..L : h[n].ok
           /\ ~h[L + 1].ok
           /\ h[L + 1].t - h[1].t < rate_limit_window
           /\ h[L + 2].t - h[L + 1].t > rate_limit_window
           /\ h[L + 2].ok
           /\ requestsA[identifier(c[2], c[3])] = <<h[L + 2].t>>

-----------------------------------------------------------------------------
-----------------------------------------------------------------------------
(* Reading the last key-store call *)

\* the step is a call of the key store
KeyCall(op) == ncalls' = ncalls + 1 /\ ret'.op = op

-----------------------------------------------------------------------------
(* C7: the request_count of a key that stays in the snapshot never         *)
(* decreases from one state to the next.                                   *)
C7_RequestCountMonotonic ==
    [][\A h \in DOMAIN keys \cap DOMAIN keys' :
          keys'[h].request_count >= keys[h].request_count]_vars

-----------------------------------------------------------------------------
(* C8: a validate_key call for an issued, unrevoked key returns the record *)
(* with request_count one more than the previous validate_key call for the *)
(* key returned (1 on the first call), and with last_used set.             *)
C8_CountsEachValidation ==
    [][\A key \in issued \ DOMAIN revoked :
          (KeyCall("validate") /\ ret'.key = key) =>
              /\ ret'.val # None
              /\ ret'.val[1].request_count = returned[key] + 1
              /\ ret'.val[1].last_used = Some(now)]_vars

-----------------------------------------------------------------------------
(* C9 as stated: validate_key of a non-empty key never issued returns None, *)
(* leaves the snapshot unchanged and appends one failure timestamp to the   *)
(* window of ip alone.                                                      *)
C9_FailedValidationFrame(snapshotAfter) ==
    \A key \in RawKeys \ (issued \cup {EmptyKey}), ip \in ClientIPs :
        (KeyCall("validate") /\ ret'.key = key /\ ret'.ip = ip) =>
            LET old == HistOf(failed_attempts, ip)
            IN /\ ret'.val = None
               /\ keys' \in snapshotAfter
               /\ ip \in DOMAIN failed_attempts'
               /\ failed_attempts'[ip] =
                     Append(SelectSeq(old, LAMBDA t : now - t < FailureHorizon),
                            now)
               /\ \A other \in ClientIPs \ {ip} :
                     HistOf(failed_attempts', other) = HistOf(failed_attempts, other)
                     /\ (other \in DOMAIN failed_attempts'
                           <=> other \in DOMAIN failed_attempts)

C9_SnapshotUnchanged == [][C9_FailedValidationFrame({keys})]_vars

(* C9, amended: ... leaves the snapshot unchanged unless more than the TTL  *)
(* has passed since the last load, and then the snapshot is what the        *)
(* backing file holds (unchanged when the file is missing, empty when it    *)
(* does not parse).                                                         *)
C9_SnapshotUnchangedOrReloaded ==
    [][C9_FailedValidationFrame(
          IF now - last_load_time > cache_ttl
          THEN IF file.state = "json" THEN {file.data}
               ELSE IF file.state = "missing" THEN {keys} ELSE {EmptyDict}
          ELSE {keys})]_vars

\* a failed validation of a never-issued key has reloaded a snapshot that held
\* a used key, and the address has two failures in its window
C9_Witness ==
    /\ ret.op = "validate" /\ ret.key = BadKey /\ ret.val = None
    /\ Len(HistOf(failed_attempts, ret.ip)) >= 2
    /\ last_load_time = now /\ now >= 2
    /\ \E key \in issued : /\ returned[key] >= 1
                           /\ Sha256(key) \in DOMAIN keys
                           /\ keys[Sha256(key)].request_count = 0

-----------------------------------------------------------------------------
(* C10: once revoke_key(k) has returned True, k's record is in neither the *)
(* snapshot nor the backing file, every validate_key(k) returns None, also *)
(* after a reload, and revoke_key(k) returns False and changes nothing.    *)
C10_Revocation ==
    [][/\ \A key \in DOMAIN revoked' :
             /\ Sha256(key) \notin DOMAIN keys'
             /\ Sha256(key) \notin DOMAIN file'.data
       /\ \A key \in DOMAIN revoked :
             /\ (KeyCall("validate") /\ ret'.key = key) => ret'.val = None
             /\ (KeyCall("revoke") /\ ret'.key = key) =>
                   /\ ~ret'.ok
                   /\ keys' = keys /\ file' = file
                   /\ last_load_time' = last_load_time
                   /\ failed_attempts' = failed_attempts]_vars

\* a revoked key was refused by a validate_key call that came after a reload
\* made after the revocation, while another key is still in the store
C10_Witness ==
    /\ ret.op = "validate" /\ ret.key \in DOMAIN revoked /\ ret.val = None
    /\ last_load_time > revoked[ret.key]
    /\ file.state = "json" /\ DOMAIN file.data # {}
    /\ DOMAIN keys = DOMAIN file.data

-----------------------------------------------------------------------------
(* Reading the workers *)

InValidate == {"validate", "lookup", "touch", "rc_read", "rc_write"}
InRateCheck == {"rl_begin", "prune_read", "prune_write", "compare", "append"}

-----------------------------------------------------------------------------
(* C5: with get_api_key running concurrently for one key, at most L calls  *)
(* are admitted with their timestamp in any window (t - W, t], and once no  *)
(* worker is inside check_rate_limit every admitted timestamp still inside  *)
(* the window is in the stored list.                                        *)
C5_ConsistentWindow ==
    LET id == identifier(<<"k1">>, <<"*">>)
        stored == HistOf(requestsA, id)
    IN /\ \A t \in 0..now :
             Cardinality({i \in DOMAIN cstat.admitted :
                            /\ t - rate_limit_window < cstat.admitted[i]
                            /\ cstat.admitted[i] <= t})
               <= rate_limit_requests
       /\ (\A w \in Workers : threads[w].pc \notin InRateCheck) =>
             \A t \in 0..now : t > now - rate_limit_window =>
                Count(stored, t) = Count(cstat.admitted, t)

-----------------------------------------------------------------------------
(* C6: once no worker is inside validate_key, and no reload has happened,  *)
(* the record's request_count is the number of validate_key calls that     *)
(* found the key.                                                          *)
C6_CounterAtomic ==
    ((\A w \in Workers : threads[w].pc \notin InValidate) /\ cstat.reloads = 0)
        => keys[Sha256(<<"k1">>)].request_count = cstat.validated

-----------------------------------------------------------------------------
(* Reading the backing file *)

\* the records a parse of the backing file gives (none when it is missing or
\* does not parse)
FileRecords == IF file.state = "json" THEN file.data ELSE EmptyDict

-----------------------------------------------------------------------------
(* C11: a validate_key call with a non-empty key made more than the TTL    *)
(* after the last load looks the key up in what the backing file holds and *)
(* sets the last-load time; a call made within the TTL looks it up in the  *)
(* snapshot and leaves the last-load time alone.  So a key that is not in  *)
(* the backing file is refused once the TTL has passed.                    *)
C11_BoundedStaleness ==
    [][(KeyCall("validate") /\ ret'.key # EmptyKey) =>
          IF now - last_load_time > cache_ttl
          THEN /\ last_load_time' = now
               /\ ret'.ok <=> Sha256(ret'.key) \in DOMAIN FileRecords
               /\ DOMAIN keys' = DOMAIN FileRecords
          ELSE /\ last_load_time' = last_load_time
               /\ ret'.ok <=> Sha256(ret'.key) \in DOMAIN keys
               /\ DOMAIN keys' = DOMAIN keys]_vars

-----------------------------------------------------------------------------
(* C12: a step that runs load_keys (a direct call, or the reload of a      *)
(* validate_key call) sets the last-load time to now; with the file        *)
(* missing the snapshot is empty afterwards, with the file malformed it is *)
(* the snapshot it was or empty.                                           *)
C12_LoadTolerant ==
    [][(\/ KeyCall("load")
        \/ /\ KeyCall("validate") /\ ret'.key # EmptyKey
           /\ now - last_load_time > cache_ttl) =>
          /\ last_load_time' = now
          /\ file.state = "missing" => keys' = EmptyDict
          /\ file.state = "malformed" => keys' \in {keys, EmptyDict}]_vars

-----------------------------------------------------------------------------
(* Reading a request through the gateway *)

\* the step is a request that reached get_api_key and got this status
GateAnswer(status) ==
    /\ KeyCall("request")
    /\ ret'.by = "get_api_key"
    /\ ret'.status = status

\* the auth_failure events among those logged
AuthFailures(evs) == SelectSeq(evs, LAMBDA e : e.event_type = "auth_failure")

-----------------------------------------------------------------------------
(* C13: no map of the gateway (key snapshot, backing file, rate windows of *)
(* both layers, failed-attempt table) has a key that is, or begins with, a *)
(* raw token the store has issued.                                         *)
C13_RawKeyNeverStored ==
    \A k \in issued :
        \A d \in {keys, file.data, requestsA, requestsB, failed_attempts} :
            \A x \in DOMAIN d : ~StartsWith(x, k)

-----------------------------------------------------------------------------
(* C17: every 401 of get_api_key, for a missing key as for an invalid one, *)
(* adds one timestamp (now) to the failed-attempt window of the request's  *)
(* address and logs one auth_failure event.                                *)
C17_RejectionsRecorded ==
    [][GateAnswer(401) =>
          /\ ret'.ip \in DOMAIN failed_attempts'
          /\ Count(failed_attempts'[ret'.ip], now)
                = Count(HistOf(failed_attempts, ret'.ip), now) + 1
          /\ Len(AuthFailures(events')) = 1]_vars

-----------------------------------------------------------------------------
(* C18: a request is attributed to one address in both layers: the window  *)
(* Layer B touches is the one of (address, path), and the failed-attempt   *)
(* window that changes and the events logged are under that address.       *)
C18_SameAddressBothLayers ==
    [][KeyCall("request") =>
          /\ \A k \in DOMAIN requestsB' :
                k # request_key(ret'.ip, <<TENANTS>>) =>
                    k \in DOMAIN requestsB /\ requestsB'[k] = requestsB[k]
          /\ \A x \in DOMAIN failed_attempts' :
                x # ret'.ip =>
                    /\ x \in DOMAIN failed_attempts
                    /\ failed_attempts'[x] = failed_attempts[x]
          /\ \A i \in DOMAIN events' : events'[i].ip_address = ret'.ip]_vars

-----------------------------------------------------------------------------
(* C19: a failed validate_key call logs an auth_abuse event exactly when   *)
(* the failures of the address within the horizon, the current one         *)
(* included, are at least 5; the event has severity ERROR and carries that *)
(* number as failure_count.                                                *)
C19_AbuseEvent ==
    [][(KeyCall("validate") /\ ~ret'.ok) =>
          LET n == Len(SelectSeq(HistOf(failed_attempts, ret'.ip),
                                 LAMBDA t : now - t < FailureHorizon)) + 1
              abuse == SelectSeq(events', LAMBDA e : e.event_type = "auth_abuse")
          IN /\ Len(abuse) = (IF n >= 5 THEN 1 ELSE 0)
             /\ \A i \in DOMAIN abuse :
                   /\ abuse[i].severity = "ERROR"
                   /\ abuse[i].ip_address = ret'.ip
                   /\ abuse[i].details.failure_count = n]_vars

\* the fifth failed validation of an address within the horizon logged an
\* auth_abuse event with failure_count 5
C19_Witness ==
    /\ ret.op = "validate" /\ ~ret.ok
    /\ Len(failed_attempts[ret.ip]) = 5
    /\ \E i \in DOMAIN events :
          /\ events[i].event_type = "auth_abuse"
          /\ events[i].details.failure_count = 5

-----------------------------------------------------------------------------
(* C20: a request refused with 401 adds no block and leaves the windows of *)
(* Layer A alone and those of Layer B other than the request's own; and a  *)
(* request with a valid key that Layer B lets through is never refused     *)
(* with 401, whatever the failed-attempt table holds: when Layer A admits  *)
(* it, it gets the key's record.                                           *)
C20_FailuresNeverBlock ==
    [][/\ GateAnswer(401) =>
             /\ DOMAIN blocked_ips' \subseteq DOMAIN blocked_ips
             /\ requestsA' = requestsA
             /\ \A k \in DOMAIN requestsB' :
                   k # request_key(ret'.ip, <<TENANTS>>) =>
                       k \in DOMAIN requestsB /\ requestsB'[k] = requestsB[k]
       /\ (/\ KeyCall("request") /\ ret'.by = "get_api_key"
           /\ ret'.key \in issued \ DOMAIN revoked) =>
             /\ ret'.status # 401
             /\ ret'.status = 200 =>
                   ret'.val = Some(keys'[Sha256(ret'.key)])]_vars

\* every request came from one address: three were refused with 401 within
\* the horizon, and the next one, with the valid key, was served
C20_Witness ==
    /\ ret.op = "request" /\ ret.status = 200 /\ ret.ip = <<"b">>
    /\ Unknown \in DOMAIN failed_attempts
    /\ Len(failed_attempts[Unknown]) = 3
    /\ \A i \in 1..3 : now - failed_attempts[Unknown][i] < FailureHorizon
    /\ DOMAIN requestsB = {request_key(<<"b">>, <<TENANTS>>)}

-----------------------------------------------------------------------------
(* Reading the executor *)

\* the step is a call of execute or execute_with_timeout
ExecCall ==
    /\ ncalls' = ncalls + 1
    /\ xret'.op \in {"execute", "execute_with_timeout"}

\* the command of the call is a string of the whitelist
Whitelisted(command) == command.type = "str" /\ command.v \in ALLOWED_COMMANDS

\* the text has a character of the denylist, or two dots in a row
Unsafe(text) ==
    \/ \E i \in DOMAIN text : \E j \in DOMAIN dangerous_chars :
          text[i] = dangerous_chars[j]
    \/ \E i \in DOMAIN text : i < Len(text) /\ text[i] = "." /\ text[i + 1] = "."

-----------------------------------------------------------------------------
(* C14: a call of execute or execute_with_timeout whose command is not a   *)
(* string of ALLOWED_COMMANDS returns (False, "", message) and hands no    *)
(* argument vector to subprocess.run.                                      *)
C14_Whitelist ==
    [][(ExecCall /\ ~Whitelisted(xret'.command)) =>
          /\ ~xret'.ok
          /\ xret'.out = <<>>
          /\ xret'.err # <<>>
          /\ procs' = procs]_vars

\* after a whitelisted command started a process, execute_with_timeout
\* refused a command outside the whitelist and started nothing
C14_Witness ==
    /\ Len(procs) = 1
    /\ procs[1].by = "CommandExecutor"
    /\ xret.op = "execute_with_timeout"
    /\ xret.command = PyStr(<<"evil">>)
    /\ ~xret.ok /\ xret.err = <<"Command '", "evil", "' is not allowed">>

-----------------------------------------------------------------------------
(* C15: a call with a whitelisted command starts no process when one of    *)
(* its arguments has a denylisted character or '..', and otherwise starts  *)
(* exactly [cli_path, command] followed by the stripped arguments in their *)
(* order; no element of a vector the executor started is unsafe.           *)
C15_AllOrNothing ==
    [][(ExecCall /\ Whitelisted(xret'.command)) =>
          LET args == xret'.args
          IN /\ IF \E i \in DOMAIN args : Unsafe(Str(args[i]))
                THEN ~xret'.ok /\ procs' = procs
                ELSE /\ Len(procs') = Len(procs) + 1
                     /\ SubSeq(procs', 1, Len(procs)) = procs
                     /\ LET argv == procs'[Len(procs')].argv
                        IN /\ Len(argv) = 2 + Len(args)
                           /\ argv[1] = cli_path
                           /\ argv[2] = xret'.command.v
                           /\ \A i \in DOMAIN args :
                                 argv[2 + i] = Strip(Str(args[i]))
             /\ \A n \in DOMAIN procs' :
                   procs'[n].by = "CommandExecutor" =>
                      \A i \in DOMAIN procs'[n].argv : ~Unsafe(procs'[n].argv[i])]_vars

\* a call with a padded string and a number started the stripped vector, and
\* the next call, whose second argument has '..', started nothing
C15_Witness ==
    /\ Len(procs) = 1
    /\ procs[1].argv = <<cli_path, <<"status">>, <<"t">>, <<"7">>>>
    /\ xret.op = "execute" /\ xret.command = PyStr(<<"status">>)
    /\ xret.args = <<PyStr(<<"t">>), PyStr(<<".", ".", "/", "t">>)>>
    /\ ~xret.ok
    /\ xret.err = <<"Argument contains directory traversal pattern">>

-----------------------------------------------------------------------------
(* C16: every process started while a request is handled is started by    *)
(* the executor, as [cli_path, whitelisted command, arguments...], and no  *)
(* element of the vector is text put together around a request's value.    *)
C16_DiscreteVectorOnly ==
    \A n \in DOMAIN procs :
        /\ procs[n].by = "CommandExecutor"
        /\ procs[n].argv[1] = cli_path
        /\ procs[n].argv[2] \in ALLOWED_COMMANDS
        /\ \A i \in 3..Len(procs[n].argv) : ~Unsafe(procs[n].argv[i])

\* ---- through the pipeline: the middleware, get_api_key, the handler ----

ServeCall == ncalls' = ncalls + 1 /\ ret'.op = "request"

\* C21: the Layer B check runs before get_api_key and the handler: a request
\* that Layer B rejects changes no key record, no failed-attempt window and no
\* Layer A window, logs no authentication event and starts no subprocess;
\* and within get_api_key the per-key rate check is made only for a key that
\* validate_key accepted (a 401 leaves the Layer A windows as they were).
C21_LayerBFirst ==
    [][ServeCall =>
         /\ ~RateLimitBEffect(ret'.ip, ret'.path).ok =>
               /\ ret'.status = 429
               /\ UNCHANGED <<keys, failed_attempts, requestsA, procs>>
               /\ events' = <<>>
         /\ ret'.status = 401 => UNCHANGED requestsA
         /\ requestsA' # requestsA => Sha256(ret'.key) \in DOMAIN keys]_vars

\* a valid key was served once (a subprocess ran), and the next request with
\* it was turned away by Layer B
C21_Witness ==
    /\ ret.op = "request" /\ ret.by = "middleware" /\ ret.key = <<"k1">>
    /\ Len(procs) = 1
    /\ \E id \in DOMAIN requestsA : requestsA[id] # <<>>

\* C22: a missing or unknown key is answered 401, rate-limit exhaustion in
\* either layer is answered 429 with a retry-after hint, and the key record is
\* returned in the remaining case only.
C22_Responses ==
    ret.op = "request" =>
       /\ ret.status \in {200, 401, 429}
       /\ (ret.val # None) <=> (ret.status = 200)
       /\ ret.status = 429 => ret.retry_after # None
       /\ ret.status = 401 => Sha256(ret.key) \notin DOMAIN keys

\* ---- what the executor returns and logs ----

\* the last call was one of the two entry points of the executor
ExecDone == xret.op \in {"execute", "execute_with_timeout"}

\* the (success, stdout, stderr) the caller holds
Triple == <<xret.ok, xret.out, xret.err>>

\* the message the entry point returns when the timeout expires
TimeoutMessage ==
    IF xret.op = "execute" THEN <<"Command timeout">>
    ELSE <<"Command timeout after ", "120", "s">>

\* C23: both entry points return; when the timeout expires the call returns
\* (False, "", timeout message), and a caller holding that triple can tell
\* that the timeout expired: no call that ended in a validation failure or in
\* a non-zero exit returns the same triple.
C23_TimeoutDistinct ==
    ExecDone =>
       /\ xret.run = Some(TimedOut) => Triple = <<FALSE, <<>>, TimeoutMessage>>
       /\ Triple = <<FALSE, <<>>, TimeoutMessage>> => xret.run = Some(TimedOut)

\* C24: success is True exactly when the subprocess ran and exited with code
\* 0; a non-zero exit returns False with the stdout and stderr of that run;
\* every other failure returns False as well, and nothing is raised.
C24_SuccessIffZeroExit ==
    ExecDone =>
       /\ xret.ok \in BOOLEAN
       /\ xret.ok <=> (xret.run # None /\ xret.run[1].kind = "zero")
       /\ (xret.run # None /\ xret.run[1].kind = "nonzero") =>
             /\ xret.out = xret.run[1].out
             /\ xret.err = xret.run[1].err

\* the child exited with another code than 0, having written to both streams
C24_Witness ==
    /\ ExecDone /\ xret.run = Some(Exited("nonzero", <<"stdout">>, <<"stderr">>))
    /\ Triple = <<FALSE, <<"stdout">>, <<"stderr">>>>

\* C25: every invocation is logged exactly once through _log_execution, with
\* its command, its arguments, the success flag it returned and, on failure,
\* the stderr it returned, a whitelist or sanitization rejection included.
C25_LoggedOnce ==
    ExecDone =>
       /\ Len(xlog) = 1
       /\ xlog[1].command = xret.command.v
       /\ xlog[1].args = StrArgs(xret.args)
       /\ xlog[1].success = xret.ok
       /\ ~xret.ok => xlog[1].stderr = Some(xret.err)

\* ---- the event loop ----

\* C26: while the executor call of one request is in progress, the event loop
\* stays free to take up and to complete other requests, whatever the route
\* through which the executor was reached.
C26_LoopStaysFree ==
    (\E id \in DOMAIN inflight : inflight[id].stage = "subprocess")
       => loop_blocked = None

\* ---- the sanitizers and the error responses ----

\* a canonical path is the base or lies below it
Inside(target, base) == target = base \/ StartsWith(target, base \o <<"/">>)

\* C27: sanitize_file_path(path, base) returns only a canonical path that is
\* the canonical base or lies inside it, and raises for every candidate whose
\* joined and resolved path lies outside the base.
C27_PathContained ==
    applied.fn = "sanitize_file_path" =>
       LET base == Resolve(applied.base_dir)
           target == Resolve(Join(base, applied.path))
       IN /\ ~applied.res.raised =>
                /\ applied.res.v = target
                /\ Inside(applied.res.v, base)
          /\ (applied.path # <<>> /\ ~Inside(target, base)) => applied.res.raised

\* the characters str.strip() removes, among those of the arguments
Blank(c) == c \in {" ", "\t"}

\* r is s without its leading and trailing blanks, nothing else changed
Trimmed(s, r) ==
    \E i \in 0..Len(s) : \E j \in i..Len(s) :
       /\ r = SubSeq(s, i + 1, j)
       /\ \A k \in 1..i : Blank(s[k])
       /\ \A k \in (j + 1)..Len(s) : Blank(s[k])
       /\ r # <<>> => ~Blank(r[1]) /\ ~Blank(r[Len(r)])

\* C28: sanitize_command_argument raises for every string that holds a
\* denylisted character or the sequence '..', and otherwise returns the input
\* with its leading and trailing whitespace removed and nothing else changed.
C28_ArgumentSanitized ==
    applied.fn = "sanitize_command_argument" =>
       IF Unsafe(applied.arg) THEN applied.res.raised
       ELSE /\ ~applied.res.raised
            /\ Trimmed(applied.arg, applied.res.v)

\* an argument with blanks on both sides came back without them
C28_Witness ==
    /\ applied.fn = "sanitize_command_argument"
    /\ applied.arg = <<" ", "t", "\t">>
    /\ applied.res = Returns(<<"t">>)

\* the messages a caller may be given in production
GenericMessages ==
    { safe_errors[t] : t \in DOMAIN safe_errors } \cup { DefaultMessage }

\* C29: with debug = False the message returned to the caller is one of a
\* fixed set of generic messages, wherever the exception was raised while
\* the request was handled; the raw text is returned only with debug = True.
C29_NoRawText ==
    (applied.fn = "respond" /\ ~applied.debug) =>
       applied.res.message \in GenericMessages

\* ---- the two layers side by side ----

\* the decisions a layer has made for a subject and an endpoint, in order
Decisions(layer, subject, endpoint) ==
    IF <<layer, subject, endpoint>> \in DOMAIN hist
    THEN hist[<<layer, subject, endpoint>>] ELSE <<>>

\* the timestamps of a window that are in force now
InForce(window) == SelectSeq(window, LAMBDA t : now - t < rate_limit_window)

StoredWindow(table, k) == IF k \in DOMAIN table THEN table[k] ELSE <<>>

\* C30: with equal limit and window and no active block, check_rate_limit and
\* _check_rate_limit, called side by side, give the same decision at every
\* step, and the timestamps in force in their two windows are the same.
C30_SameAlgorithm ==
    (rate_limit_requests = default_limit /\ rate_limit_window = default_window) =>
       \A subject \in Subjects, endpoint \in PlainEndpoints :
          /\ Decisions("A", subject, endpoint) = Decisions("B", subject, endpoint)
          /\ InForce(StoredWindow(requestsA, identifier(subject, endpoint)))
                = InForce(StoredWindow(requestsB, request_key(subject, endpoint)))

\* both layers turned a call away and, the window having slid, admitted a
\* later one, and an earlier timestamp is still in force in both windows
C30_Witness ==
    \E subject \in Subjects, endpoint \in PlainEndpoints :
       LET h == Decisions("B", subject, endpoint)
       IN /\ \E i \in DOMAIN h : \E j \in DOMAIN h : i < j /\ ~h[i].ok /\ h[j].ok
          /\ blocked_ips = EmptyDict
          /\ Len(InForce(requestsA[identifier(subject, endpoint)])) = 2
          /\ Len(InForce(requestsB[request_key(subject, endpoint)])) = 2

\* ---- the frame of a rate check ----

\* nothing was added to the window w0 on the way to w1
NoneAppended(w0, w1) ==
    /\ Len(w1) <= Len(w0)
    /\ \A i \in DOMAIN w1 : \E j \in DOMAIN w0 : w1[i] = w0[j]

\* C31 (Layer B): an admitted call appends exactly one timestamp, now, to the
\* window of its own (address, path), a rejected call appends none, and the
\* window of every other (address, path) is left as it was.
C31_FrameB ==
    \A ip \in IPs, path \in Paths :
       Called(<<"B", ip, path>>) =>
          /\ LET w0 == StoredWindow(requestsB, request_key(ip, path))
                 w1 == StoredWindow(requestsB', request_key(ip, path))
             IN IF Returned(<<"B", ip, path>>)
                THEN w1 = Append(PruneB(w0, WindowB(path)), now)
                ELSE NoneAppended(w0, w1)
          /\ \A ip2 \in IPs, path2 \in Paths :
                <<ip2, path2>> # <<ip, path>> =>
                   StoredWindow(requestsB', request_key(ip2, path2))
                      = StoredWindow(requestsB, request_key(ip2, path2))

\* C31 (Layer A): the same for the window of a (key, endpoint).
C31_FrameA ==
    \A key \in ApiKeys, endpoint \in Endpoints :
       Called(<<"A", key, endpoint>>) =>
          /\ LET w0 == StoredWindow(requestsA, identifier(key, endpoint))
                 w1 == StoredWindow(requestsA', identifier(key, endpoint))
             IN IF Returned(<<"A", key, endpoint>>)
                THEN w1 = Append(PruneA(w0), now)
                ELSE NoneAppended(w0, w1)
          /\ \A key2 \in ApiKeys, endpoint2 \in Endpoints :
                <<key2, endpoint2>> # <<key, endpoint>> =>
                   StoredWindow(requestsA', identifier(key2, endpoint2))
                      = StoredWindow(requestsA, identifier(key2, endpoint2))

\* C31: the frame of a rate check, in both layers.
C31_RateCheckFrame == [][C31_FrameB /\ C31_FrameA]_vars

\* ---- the limit of a route ----

\* the entry of the override table with this prefix
OverrideOf(family) ==
    endpoint_limits[CHOOSE i \in DOMAIN endpoint_limits :
                       endpoint_limits[i].prefix = family]

\* C32: a request to a tenant, monitoring or system route of the application
\* is admitted exactly when fewer calls than the limit of its route's override
\* are in force in its window (of the override's length).
C32_RouteOverride ==
    [][\A r \in ServedRoutes \cup UnservedRoutes :
         LET c == <<"B", <<"a">>, r.path>>
             o == OverrideOf(r.family)
             w == StoredWindow(requestsB, request_key(<<"a">>, r.path))
         IN Called(c) =>
               (Returned(c) <=>
                   Len(SelectSeq(w, LAMBDA t : now - t < o.window)) < o.limit)]_vars

\* ---- the security events of validate_key ----

EventsOfType(evs, type) == SelectSeq(evs, LAMBDA e : e.event_type = type)

\* C33: a validate_key call logs exactly one of auth_success and
\* auth_failure; auth_success carries the name of the record returned and its
\* request_count after the increment; auth_abuse is logged only directly
\* after the auth_failure of the same call, for the same address.
C33_EventTrail ==
    [][KeyCall("validate") =>
          LET success == EventsOfType(events', "auth_success")
              failure == EventsOfType(events', "auth_failure")
          IN /\ Len(success) + Len(failure) = 1
             /\ Len(success) = 1 <=> ret'.ok
             /\ \A i \in DOMAIN success :
                   /\ success[i].ip_address = ret'.ip
                   /\ success[i].details.key_name = ret'.val[1].name
                   /\ success[i].details.request_count = ret'.val[1].request_count
                   /\ success[i].details.request_count
                         = keys'[Sha256(ret'.key)].request_count
                   /\ last_load_time' = last_load_time =>
                         success[i].details.request_count
                            = keys[Sha256(ret'.key)].request_count + 1
             /\ \A i \in DOMAIN events' :
                   events'[i].event_type = "auth_abuse" =>
                      /\ i > 1
                      /\ events'[i - 1].event_type = "auth_failure"
                      /\ events'[i - 1].ip_address = events'[i].ip_address
                      /\ events'[i].ip_address = ret'.ip]_vars

\* the second validation of a key logged auth_success with request_count 2
C33_Witness ==
    /\ ret.op = "validate" /\ ret.ok
    /\ Len(events) = 1
    /\ events[1].event_type = "auth_success"
    /\ events[1].details.request_count = 2

\* ---- the size of the stored windows ----

\* C34: every stored window holds at most limit timestamps: at most
\* rate_limit_requests for a (key, endpoint) of Layer A, and at most the limit
\* of the path for an (address, path) of Layer B.
C34_WindowBounded ==
    /\ \A key \in ApiKeys, endpoint \in Endpoints :
          Len(StoredWindow(requestsA, identifier(key, endpoint)))
             <= rate_limit_requests
    /\ \A id \in DOMAIN requestsA : Len(requestsA[id]) <= rate_limit_requests
    /\ \A ip \in IPs, path \in Paths :
          Len(StoredWindow(requestsB, request_key(ip, path))) <= LimitB(path)

\* ---- paths under one override prefix ----

\* the calls to the paths of the prefix that Layer B admitted in (lo, hi]
AdmittedUnderPrefix(lo, hi) ==
    { <<path, i>> \in PrefixPaths \X (1..MaxCalls) :
         i \in AdmittedIn(<<"B", <<"a">>, path>>, lo, hi) }

\* C35 as stated: for one address, the requests admitted within one window
\* over all the paths that share an override prefix never exceed the limit
\* of the prefix.
C35_PrefixTotal ==
    \A t \in 0..now :
       Cardinality(AdmittedUnderPrefix(t - OverrideOf(<<TENANTS>>).window, t))
          <= OverrideOf(<<TENANTS>>).limit

\* C35 amended: for one address and one path, the requests admitted within
\* one window never exceed the limit of the path's override prefix; the
\* windows being kept per path, the total over the paths that share the
\* prefix never exceeds the limit times the number of these paths.
C35_PerPathLimit ==
    \A t \in 0..now :
       LET o == OverrideOf(<<TENANTS>>)
       IN /\ \A path \in PrefixPaths :
                Cardinality(AdmittedIn(<<"B", <<"a">>, path>>, t - o.window, t))
                   <= o.limit
          /\ Cardinality(AdmittedUnderPrefix(t - o.window, t))
                <= o.limit * Cardinality(PrefixPaths)

\* both paths have used up the limit within one window, and a further call
\* to one of them was refused
C35_Witness ==
    /\ Cardinality(AdmittedUnderPrefix(now - OverrideOf(<<TENANTS>>).window, now))
          = 2 * OverrideOf(<<TENANTS>>).limit
    /\ \E path \in PrefixPaths :
          \E i \in DOMAIN HistOf(hist, <<"B", <<"a">>, path>>) :
             ~hist[<<"B", <<"a">>, path>>][i].ok

\* ---- the key record and the per-key rate limit ----

\* the snapshot validate_key looks the key up in: the file's records when the
\* TTL has passed, the snapshot otherwise
SnapshotInUse == IF now - last_load_time > cache_ttl THEN FileRecords ELSE keys

C37_OtherRecordsKept ==
    [][(KeyCall("generate") \/ (KeyCall("revoke") /\ ret'.ok)) =>
          /\ file'.state = "json"
          /\ \A h \in DOMAIN FileRecords \ {Sha256(ret'.key)} :
                h \in DOMAIN file'.data]_vars

\* ---- the service layer and the whitelist ----

\* C38: every command name the service layer passes to execute or
\* execute_with_timeout is in ALLOWED_COMMANDS: no service call is refused by
\* the whitelist, each one gets as far as starting the CLI.
C38_ServiceCommandsAllowed ==
    [][ExecCall => Whitelisted(xret'.command) /\ xret'.run # None]_vars

\* ---- a reload under an in-flight validate_key ----

\* C39: no validate_key call of a worker raises, whatever the other workers
\* do: a reload that replaces the snapshot between a call's membership test
\* and its reads of the record does not make the call fail.
C39_NoWorkerRaises == cstat.raised = 0

====
